---------------------------- MODULE Spec2Model ----------------------------
(***************************************************************************)
(* The tool invocation layer (services/mcp_client.py) and the language     *)
(* model gateway (services/llm_provider.py) of the ordo backend.           *)
(*                                                                         *)
(* Text is modelled as a sequence of one-character strings wherever the    *)
(* code looks inside it (tool names, which get_surface_from_tool searches  *)
(* for substrings); text the code only passes on is a TLA+ string.         *)
(***************************************************************************)
EXTENDS Integers, Sequences, FiniteSets, TLC

VARIABLES
    \* ---- MCPClient.execute_tool
    context,         \* the caller's OrdoContext
    request,         \* the execute_tool call made under it
    tool_outcome,    \* how that call ended
    \* ---- LLMProvider
    primary_llm,     \* TRUE iff self.primary_llm is not None
    fallback_llm,    \* TRUE iff self.fallback_llm is not None
    primary_count,   \* self.primary_count
    fallback_count,  \* self.fallback_count
    pc,              \* where the gateway call in flight is suspended
    call,            \* the gateway call in flight, or the last one
    attempts,        \* the provider invocations of that call, in order
    replies,         \* what each of them answered, in the same order
    outcome,         \* how the call ended
    plain_run,       \* the last completed ainvoke(messages) that was recorded
    \* ---- PolicyEngine
    policy_arg,      \* the list the caller has at hand
    policy_calls,    \* the filter calls made, each with its list and its result
    \* ---- OrdoAgent.process_query
    agent_stage,     \* the stage the request is in
    agent_visited,   \* the stages it has entered, in order
    agent_state,     \* its WorkflowState
    agent_calls,     \* the tool calls execute_tools dispatched
    agent_output,    \* what process_query returned
    \* ---- PolicyEngine.filter_content
    fc_content,      \* the content object the caller holds
    fc_calls,        \* the filter_content calls made: argument and return value
    violation_log,   \* the records _log_policy_violation wrote
    \* ---- MCPClient interceptors
    tool_args,       \* the caller's args map
    chain_call,      \* the interceptor or execute_tool call in flight
    handler_seen,    \* the requests the next handler was invoked with
    tool_log,        \* the records the interceptors wrote
    chain_outcome,   \* how the call ended
    \* ---- LLMProvider statistics
    answered,        \* the calls each provider answered since the last reset
    stats,           \* what the last get_stats returned
    \* ---- concurrent callers of one LLMProvider
    tasks,           \* each caller's call: where it is suspended, how it ended
    \* ---- get_system_prompt
    prompt_args,     \* the arguments of the call
    prompt,          \* what it returned
    \* ---- get_confirmation_prompt
    confirm_args,    \* the arguments of the call
    confirm_out,     \* how it ended: the prompt returned, or the error raised
    \* ---- resource handlers of the MCP servers
    resource_pending, \* the handler awaiting its tool call
    resource_last     \* the last read that ended: tool result and outcome

toolVars == <<context, request, tool_outcome>>

llmVars == <<primary_llm, fallback_llm, primary_count, fallback_count,
             pc, call, attempts, replies, outcome>>

policyVars == <<policy_arg, policy_calls>>

agentVars == <<agent_stage, agent_visited, agent_state, agent_calls,
               agent_output>>

contentVars == <<fc_content, fc_calls, violation_log>>

chainVars == <<tool_args, chain_call, handler_seen, tool_log, chain_outcome>>

promptVars == <<prompt_args, prompt>>

confirmVars == <<confirm_args, confirm_out>>

resourceVars == <<resource_pending, resource_last>>

\* get_confirmation_prompt and the resource handlers
extraVars == <<confirmVars, resourceVars>>

\* what a step of execute_tool leaves alone
toolFrame == <<llmVars, plain_run, policyVars, agentVars, contentVars,
               chainVars, answered, stats, tasks, promptVars, extraVars>>

\* what a step of the gateway leaves alone
gatewayFrame == <<toolVars, policyVars, agentVars, contentVars, chainVars,
                  stats, tasks, promptVars, extraVars>>

\* what a step of a filter leaves alone
policyFrame == <<toolVars, llmVars, plain_run, agentVars, contentVars,
                 chainVars, answered, stats, tasks, promptVars, extraVars>>

\* what a step of the pipeline leaves alone
agentFrame == <<toolVars, llmVars, plain_run, policyVars, contentVars,
                chainVars, answered, stats, tasks, promptVars, extraVars>>

\* what a step of filter_content leaves alone
contentFrame == <<toolVars, llmVars, plain_run, policyVars, agentVars,
                  chainVars, answered, stats, tasks, promptVars, extraVars>>

\* what a step of an interceptor leaves alone
chainFrame == <<request, tool_outcome, llmVars, plain_run, policyVars,
                agentVars, contentVars, answered, stats, tasks, promptVars, extraVars>>

\* what get_stats and reset_stats leave alone, the counters apart
statsFrame == <<toolVars, primary_llm, fallback_llm, pc, call, attempts,
                replies, outcome, plain_run, policyVars, agentVars,
                contentVars, chainVars, tasks, promptVars, extraVars>>

\* what a step of one of several concurrent callers leaves alone
taskFrame == <<toolVars, primary_llm, fallback_llm, pc, call, attempts,
               replies, outcome, plain_run, policyVars, agentVars,
               contentVars, chainVars, answered, stats, promptVars, extraVars>>

\* what get_system_prompt leaves alone
promptFrame == <<toolVars, llmVars, plain_run, policyVars, agentVars,
                 contentVars, chainVars, answered, stats, tasks,
                 extraVars>>

\* what get_confirmation_prompt leaves alone
confirmFrame == <<toolVars, llmVars, plain_run, policyVars, agentVars,
                  contentVars, chainVars, answered, stats, tasks, promptVars,
                  resourceVars>>

\* what a step of a resource handler leaves alone
resourceFrame == <<toolVars, llmVars, plain_run, policyVars, agentVars,
                   contentVars, chainVars, answered, stats, tasks, promptVars,
                   confirmVars>>

vars == <<context, request, tool_outcome, primary_llm, fallback_llm, primary_count,
          fallback_count, pc, call, attempts, replies, outcome, plain_run,
          policy_arg, policy_calls, agent_stage, agent_visited, agent_state,
          agent_calls, agent_output, fc_content, fc_calls, violation_log,
          tool_args, chain_call, handler_seen, tool_log, chain_outcome, answered, stats,
          tasks, prompt_args, prompt, confirm_args, confirm_out,
          resource_pending, resource_last>>

-----------------------------------------------------------------------------
(* Bounds of the model *)

\* a context's permissions map holds at most this many keys
MaxPerms == 2

\* a conversation handed to the gateway holds at most this many messages
MaxMsgs == 2

\* the gateway answers at most this many calls (caps the usage counters)
MaxCalls == 2

\* items in a list given to a filter: at most MaxItems
MaxItems == 3

\* filter calls in a row: at most MaxFilters
MaxFilters == 2

\* surfaces one request requires: at most MaxSurfaces
MaxSurfaces == 2

\* surfaces a caller of get_system_prompt lists: at most MaxListed
MaxListed == 2

\* concurrent callers of the gateway: MaxTasks
MaxTasks == 3

-----------------------------------------------------------------------------
(* Text *)

UpperCase == <<"A","B","C","D","E","F","G","H","I","J","K","L","M",
               "N","O","P","Q","R","S","T","U","V","W","X","Y","Z">>

LowerCase == <<"a","b","c","d","e","f","g","h","i","j","k","l","m",
               "n","o","p","q","r","s","t","u","v","w","x","y","z">>

\* str.lower() on one character
LowerChar(c) ==
    IF \E k \in 1..Len(UpperCase) : UpperCase[k] = c
    THEN LowerCase[CHOOSE k \in 1..Len(UpperCase) : UpperCase[k] = c]
    ELSE c

\* str.lower()
Lower(s) == [i \in 1..Len(s) |-> LowerChar(s[i])]

\* Python's  sub in s  on strings
Contains(s, sub) ==
    \E i \in 0..(Len(s) - Len(sub)) : \A j \in 1..Len(sub) : s[i + j] = sub[j]

\* the substrings get_surface_from_tool looks for
Kw_email == <<"e","m","a","i","l">>
Kw_gmail == <<"g","m","a","i","l">>
Kw_send == <<"s","e","n","d">>
Kw_x_us == <<"x","_">>
Kw_twitter == <<"t","w","i","t","t","e","r">>
Kw_post == <<"p","o","s","t">>
Kw_telegram == <<"t","e","l","e","g","r","a","m">>
Kw_wallet == <<"w","a","l","l","e","t">>
Kw_token == <<"t","o","k","e","n">>
Kw_transaction == <<"t","r","a","n","s","a","c","t","i","o","n">>
Kw_build == <<"b","u","i","l","d">>
Kw_transfer == <<"t","r","a","n","s","f","e","r">>
Kw_swap == <<"s","w","a","p">>

-----------------------------------------------------------------------------
(* Tool names *)

\* tools registered by mcp_servers/email.py
EmailTools ==
    { <<"s","e","a","r","c","h","_","e","m","a","i","l","_","t","h","r","e","a","d","s">>,  \* search_email_threads
      <<"g","e","t","_","e","m","a","i","l","_","c","o","n","t","e","n","t">>,  \* get_email_content
      <<"s","e","n","d","_","e","m","a","i","l">> }  \* send_email

\* tools registered by mcp_servers/social.py
SocialTools ==
    { <<"g","e","t","_","x","_","d","m","s">>,  \* get_x_dms
      <<"g","e","t","_","x","_","m","e","n","t","i","o","n","s">>,  \* get_x_mentions
      <<"s","e","n","d","_","x","_","d","m">>,  \* send_x_dm
      <<"g","e","t","_","t","e","l","e","g","r","a","m","_","m","e","s","s","a","g","e","s">>,  \* get_telegram_messages
      <<"s","e","n","d","_","t","e","l","e","g","r","a","m","_","m","e","s","s","a","g","e">> }  \* send_telegram_message

\* tools registered by mcp_servers/wallet.py
WalletTools ==
    { <<"g","e","t","_","w","a","l","l","e","t","_","p","o","r","t","f","o","l","i","o">>,  \* get_wallet_portfolio
      <<"g","e","t","_","t","o","k","e","n","_","b","a","l","a","n","c","e","s">>,  \* get_token_balances
      <<"g","e","t","_","t","r","a","n","s","a","c","t","i","o","n","_","h","i","s","t","o","r","y">>,  \* get_transaction_history
      <<"g","e","t","_","p","r","i","o","r","i","t","y","_","f","e","e","_","e","s","t","i","m","a","t","e">>,  \* get_priority_fee_estimate
      <<"b","u","i","l","d","_","t","r","a","n","s","f","e","r","_","t","r","a","n","s","a","c","t","i","o","n">> }  \* build_transfer_transaction

\* tools registered by mcp_servers/defi.py
DefiTools ==
    { <<"g","e","t","_","t","o","k","e","n","_","p","r","i","c","e","_","b","i","r","d","e","y","e">>,  \* get_token_price_birdeye
      <<"j","u","p","i","t","e","r","_","s","w","a","p","_","q","u","o","t","e">>,  \* jupiter_swap_quote
      <<"j","u","p","i","t","e","r","_","e","x","e","c","u","t","e","_","s","w","a","p">>,  \* jupiter_execute_swap
      <<"l","u","l","o","_","g","e","t","_","r","a","t","e","s">>,  \* lulo_get_rates
      <<"l","u","l","o","_","l","e","n","d">>,  \* lulo_lend
      <<"s","a","n","c","t","u","m","_","s","t","a","k","e">>,  \* sanctum_stake
      <<"d","r","i","f","t","_","g","e","t","_","p","o","s","i","t","i","o","n","s">>,  \* drift_get_positions
      <<"d","r","i","f","t","_","o","p","e","n","_","p","o","s","i","t","i","o","n">> }  \* drift_open_position

\* tools registered by mcp_servers/nft.py
NftTools ==
    { <<"g","e","t","_","n","f","t","_","c","o","l","l","e","c","t","i","o","n">>,  \* get_nft_collection
      <<"g","e","t","_","n","f","t","_","m","e","t","a","d","a","t","a">>,  \* get_nft_metadata
      <<"t","e","n","s","o","r","_","g","e","t","_","f","l","o","o","r","_","p","r","i","c","e">>,  \* tensor_get_floor_price
      <<"t","e","n","s","o","r","_","l","i","s","t","_","n","f","t">>,  \* tensor_list_nft
      <<"t","e","n","s","o","r","_","b","u","y","_","n","f","t">>,  \* tensor_buy_nft
      <<"m","e","t","a","p","l","e","x","_","c","r","e","a","t","e","_","n","f","t">> }  \* metaplex_create_nft

\* tools registered by mcp_servers/trading.py
TradingTools ==
    { <<"g","e","t","_","m","a","r","k","e","t","_","a","n","a","l","y","s","i","s">>,  \* get_market_analysis
      <<"g","e","t","_","r","i","s","k","_","m","e","t","r","i","c","s">>,  \* get_risk_metrics
      <<"m","e","s","s","a","r","i","_","g","e","t","_","i","n","s","i","g","h","t","s">>,  \* messari_get_insights
      <<"o","n","r","a","m","p","_","g","e","t","_","q","u","o","t","e">>,  \* onramp_get_quote
      <<"o","n","r","a","m","p","_","c","r","e","a","t","e","_","o","r","d","e","r">> }  \* onramp_create_order

\* further values of execute_tool's tool_name: the empty name, upper-case
\* letters, names no server registers, names with keywords of two surfaces,
\* names with the keyword of one surface and a verb another surface tests
OtherToolNames ==
    { <<>>,  \* (empty)
      <<"S","e","n","d","_","E","m","a","i","l">>,  \* Send_Email
      <<"G","M","A","I","L","_","S","E","A","R","C","H">>,  \* GMAIL_SEARCH
      <<"p","o","s","t","_","t","w","i","t","t","e","r","_","u","p","d","a","t","e">>,  \* post_twitter_update
      <<"g","e","t","_","t","w","i","t","t","e","r","_","t","i","m","e","l","i","n","e">>,  \* get_twitter_timeline
      <<"s","w","a","p","_","t","o","k","e","n","s">>,  \* swap_tokens
      <<"t","r","a","n","s","f","e","r","_","w","a","l","l","e","t","_","f","u","n","d","s">>,  \* transfer_wallet_funds
      <<"g","e","t","_","w","e","a","t","h","e","r">>,  \* get_weather
      <<"s","e","n","d","_","t","e","l","e","g","r","a","m","_","e","m","a","i","l">>,  \* send_telegram_email
      <<"s","e","n","d","_","t","o","k","e","n">>,  \* send_token
      <<"p","o","s","t","_","t","e","l","e","g","r","a","m","_","u","p","d","a","t","e">>,  \* post_telegram_update
      <<"g","m","a","i","l","_","s","e","a","r","c","h">>,  \* gmail_search
      <<"g","e","t","_","x","_","t","e","l","e","g","r","a","m","_","f","e","e","d">>,  \* get_x_telegram_feed
      <<"t","e","l","e","g","r","a","m","_","w","a","l","l","e","t","_","a","l","e","r","t">>,  \* telegram_wallet_alert
      <<"t","w","i","t","t","e","r","_","t","o","k","e","n","_","p","r","i","c","e">> }  \* twitter_token_price

\* every tool the six MCP servers register
RegisteredTools ==
    EmailTools \cup SocialTools \cup WalletTools \cup DefiTools
        \cup NftTools \cup TradingTools

\* the tool names execute_tool is called with
ToolNames == RegisteredTools \cup OtherToolNames

-----------------------------------------------------------------------------
(* MCPClient: classification and execute_tool *)

\* the surfaces get_surface_from_tool returns, other than "UNKNOWN"
Surfaces ==
    { "READ_GMAIL", "WRITE_GMAIL", "READ_SOCIAL_X", "WRITE_SOCIAL_X",
      "READ_SOCIAL_TELEGRAM", "WRITE_SOCIAL_TELEGRAM", "READ_WALLET",
      "SIGN_TRANSACTIONS" }

\* the keys a caller's permissions map may hold
PermissionKeys == Surfaces \cup {"UNKNOWN"}

\* OrdoContext.permissions: Dict[str, bool], any keys present or absent
PermissionMaps ==
    UNION { [D -> BOOLEAN] :
              D \in { K \in SUBSET PermissionKeys : Cardinality(K) <= MaxPerms } }

\* OrdoContext
OrdoContext(permissions) ==
    [user_id |-> "user_1", permissions |-> permissions,
     tokens |-> [READ_GMAIL |-> "gmail-oauth-token"],
     wallet_address |-> "wallet_1"]

\* a get_surface_from_tool that looks for the wallet keywords first
get_surface_from_tool_WalletFirst(tool_name) ==
    LET tool_lower == Lower(tool_name)
        has(kw) == Contains(tool_lower, kw)
    IN  IF has(Kw_wallet) \/ has(Kw_token) \/ has(Kw_transaction)
        THEN IF has(Kw_build) \/ has(Kw_transfer) \/ has(Kw_swap)
             THEN "SIGN_TRANSACTIONS" ELSE "READ_WALLET"
        ELSE IF has(Kw_email) \/ has(Kw_gmail)
        THEN IF has(Kw_send) THEN "WRITE_GMAIL" ELSE "READ_GMAIL"
        ELSE IF has(Kw_x_us) \/ has(Kw_twitter)
        THEN IF has(Kw_send) \/ has(Kw_post)
             THEN "WRITE_SOCIAL_X" ELSE "READ_SOCIAL_X"
        ELSE IF has(Kw_telegram)
        THEN IF has(Kw_send)
             THEN "WRITE_SOCIAL_TELEGRAM" ELSE "READ_SOCIAL_TELEGRAM"
        ELSE "UNKNOWN"

\* MCPClient.get_surface_from_tool
get_surface_from_tool(tool_name) ==
    LET tool_lower == Lower(tool_name)
        has(kw) == Contains(tool_lower, kw)
    IN  IF has(Kw_email) \/ has(Kw_gmail)
        THEN IF has(Kw_send) THEN "WRITE_GMAIL" ELSE "READ_GMAIL"
        ELSE IF has(Kw_x_us) \/ has(Kw_twitter)
        THEN IF has(Kw_send) \/ has(Kw_post)
             THEN "WRITE_SOCIAL_X" ELSE "READ_SOCIAL_X"
        ELSE IF has(Kw_telegram)
        THEN IF has(Kw_send)
             THEN "WRITE_SOCIAL_TELEGRAM" ELSE "READ_SOCIAL_TELEGRAM"
        ELSE IF has(Kw_wallet) \/ has(Kw_token) \/ has(Kw_transaction)
        THEN IF has(Kw_build) \/ has(Kw_transfer) \/ has(Kw_swap)
             THEN "SIGN_TRANSACTIONS" ELSE "READ_WALLET"
        ELSE "UNKNOWN"

\* dict.get(key, False)
GetOrFalse(d, key) == IF key \in DOMAIN d THEN d[key] ELSE FALSE

\* d[key] = value
Put(d, key, val) ==
    [k \in DOMAIN d \cup {key} |-> IF k = key THEN val ELSE d[k]]

\* dict.get(key, True): a lookup that lets an absent key through
GetOrTrue(d, key) == IF key \in DOMAIN d THEN d[key] ELSE TRUE

\* execute_tool's permission check with the default of the lookup inverted
PermissionMissing_DefaultTrue(required_surface, ctx) ==
    /\ required_surface # "UNKNOWN"
    /\ ~GetOrTrue(ctx.permissions, required_surface)

\* execute_tool's permission check with the negation dropped
PermissionMissing_NoNot(required_surface, ctx) ==
    /\ required_surface # "UNKNOWN"
    /\ GetOrFalse(ctx.permissions, required_surface)

\* the condition of execute_tool's permission check (mcp_client.py:257)
PermissionMissing(required_surface, ctx) ==
    /\ required_surface # "UNKNOWN"
    /\ ~GetOrFalse(ctx.permissions, required_surface)

\* raise PermissionError(f"Missing permission: {required_surface}")
PermissionError(required_surface) ==
    [status |-> "raised",
     error  |-> [type |-> "PermissionError",
                 text |-> <<"Missing permission: ", required_surface>>]]

\* execute_tool's return value
PlaceholderResult(tool_name) ==
    [status |-> "returned",
     result |-> [success |-> TRUE,
                 data    |-> <<"Mock result from ", tool_name>>,
                 message |-> "MCP tool execution not yet implemented"]]

NoRequest == [tool_name |-> <<>>, confirmed |-> FALSE, made |-> FALSE]

NoToolOutcome == [status |-> "none"]

\* MCPClient.execute_tool(tool_name, args, context), called once with the
\* caller's context: execute_tool keeps nothing from one call to the next.
\* `confirmation` says whether an external confirmation of this very action
\* was received before the call; execute_tool has no parameter that carries
\* it and reads none.
ExecuteTool(tool_name, confirmation) ==
    LET required_surface == get_surface_from_tool(tool_name)
    IN  /\ ~request.made
        /\ request' = [tool_name |-> tool_name, confirmed |-> confirmation,
                       made |-> TRUE]
        /\ tool_outcome' =
              IF PermissionMissing(required_surface, context)
              THEN PermissionError(required_surface)
              ELSE PlaceholderResult(tool_name)
        /\ UNCHANGED context
        /\ UNCHANGED toolFrame

-----------------------------------------------------------------------------
(* MCPClient: the interceptors inject_ordo_context and audit_tool_calls *)

\* the args maps a caller passes
ArgMaps ==
    { [query |-> "hackathon invites"],
      [to |-> "bob@example.com", subject |-> "Hi", body |-> "See you"] }

\* the tools the interceptors are called for: a read, a write, a tool of no
\* surface
ChainTools ==
    { <<"s","e","a","r","c","h","_","e","m","a","i","l","_","t","h","r","e","a","d","s">>,  \* search_email_threads
      <<"s","e","n","d","_","e","m","a","i","l">>,  \* send_email
      <<"g","e","t","_","w","e","a","t","h","e","r">> }  \* get_weather

\* the contexts of their callers
ChainPermissionMaps ==
    { p \in PermissionMaps : DOMAIN p \subseteq {"READ_GMAIL", "WRITE_GMAIL"} }

\* what the next handler returns
HandlerResults == { [success |-> TRUE, data |-> "3 threads"] }

\* what the next handler raises
HandlerErrors == { "TimeoutError", "ValueError" }

\* the MCPToolCallRequest of a call: it holds the caller's args map itself
ToolCallRequest(tool_name) == [name |-> tool_name, args |-> tool_args]

NoChainCall == [op |-> "none", tool_name |-> <<>>, pc |-> "idle"]

\* a record written through utils.logger: logging hands it to the stream
\* handler set up in utils/logger.py, whose failure to write it (delivered
\* = FALSE) logging keeps to itself
LogRecord(level, message, delivered) ==
    [level |-> level, message |-> message, delivered |-> delivered]

\* `await handler(request)`: the next handler is invoked with the request
InvokeHandler(req) ==
    handler_seen' = Append(handler_seen,
                           [request |-> req, answer |-> NoToolOutcome])

\* the next handler has answered
HandlerAnswers(answer) ==
    handler_seen' = [handler_seen EXCEPT ![Len(handler_seen)].answer = answer]

\* an inject_ordo_context that writes user_id into the caller's args map
InjectOrdoContext_WritesArgs(tool_name, delivered) ==
    /\ chain_call.pc = "idle"
    /\ chain_call' = [op |-> "inject_ordo_context", tool_name |-> tool_name,
                      pc |-> "handler"]
    /\ tool_log' = Append(tool_log,
                          LogRecord("debug",
                                    <<"inject_ordo_context interceptor (placeholder) for user ",
                                      context.user_id>>, delivered))
    /\ tool_args' = Put(tool_args, "user_id", context.user_id)
    /\ InvokeHandler(ToolCallRequest(tool_name))
    /\ UNCHANGED <<context, chain_outcome>>
    /\ UNCHANGED chainFrame

\* MCPClient.inject_ordo_context(request, handler, context) is called: it
\* logs and invokes the handler
InjectOrdoContext(tool_name, delivered) ==
    /\ chain_call.pc = "idle"
    /\ chain_call' = [op |-> "inject_ordo_context", tool_name |-> tool_name,
                      pc |-> "handler"]
    /\ tool_log' = Append(tool_log,
                          LogRecord("debug",
                                    <<"inject_ordo_context interceptor (placeholder) for user ",
                                      context.user_id>>, delivered))
    /\ InvokeHandler(ToolCallRequest(tool_name))
    /\ UNCHANGED <<context, tool_args, chain_outcome>>
    /\ UNCHANGED chainFrame

\* the handler returns under inject_ordo_context's await
InjectHandlerReturns(result) ==
    /\ chain_call.op = "inject_ordo_context" /\ chain_call.pc = "handler"
    /\ HandlerAnswers([status |-> "returned", result |-> result])
    /\ chain_outcome' = [status |-> "returned", result |-> result]
    /\ chain_call' = [chain_call EXCEPT !.pc = "done"]
    /\ UNCHANGED <<context, tool_args, tool_log>>
    /\ UNCHANGED chainFrame

\* the handler raises under inject_ordo_context's await
InjectHandlerRaises(e) ==
    /\ chain_call.op = "inject_ordo_context" /\ chain_call.pc = "handler"
    /\ HandlerAnswers([status |-> "raised", error |-> e])
    /\ chain_outcome' = [status |-> "raised", error |-> e]
    /\ chain_call' = [chain_call EXCEPT !.pc = "done"]
    /\ UNCHANGED <<context, tool_args, tool_log>>
    /\ UNCHANGED chainFrame

\* MCPClient.audit_tool_calls(request, handler, context) is called: it logs
\* and invokes the handler
AuditToolCalls(tool_name, delivered) ==
    /\ chain_call.pc = "idle"
    /\ chain_call' = [op |-> "audit_tool_calls", tool_name |-> tool_name,
                      pc |-> "handler"]
    /\ tool_log' = Append(tool_log,
                          LogRecord("debug",
                                    <<"audit_tool_calls interceptor (placeholder) for user ",
                                      context.user_id>>, delivered))
    /\ InvokeHandler(ToolCallRequest(tool_name))
    /\ UNCHANGED <<context, tool_args, chain_outcome>>
    /\ UNCHANGED chainFrame

\* the handler returns under audit_tool_calls' await: log, return the result
AuditHandlerReturns(result, delivered) ==
    /\ chain_call.op = "audit_tool_calls" /\ chain_call.pc = "handler"
    /\ HandlerAnswers([status |-> "returned", result |-> result])
    /\ tool_log' = Append(tool_log,
                          LogRecord("info",
                                    <<"Tool execution succeeded (placeholder)">>,
                                    delivered))
    /\ chain_outcome' = [status |-> "returned", result |-> result]
    /\ chain_call' = [chain_call EXCEPT !.pc = "done"]
    /\ UNCHANGED <<context, tool_args>>
    /\ UNCHANGED chainFrame

\* an except clause that logs the failure and does not raise it again
AuditHandlerRaises_Swallows(e, delivered) ==
    /\ chain_call.op = "audit_tool_calls" /\ chain_call.pc = "handler"
    /\ HandlerAnswers([status |-> "raised", error |-> e])
    /\ tool_log' = Append(tool_log,
                          LogRecord("error",
                                    <<"Tool execution failed (placeholder): ", e>>,
                                    delivered))
    /\ chain_outcome' = [status |-> "returned", result |-> "None"]
    /\ chain_call' = [chain_call EXCEPT !.pc = "done"]
    /\ UNCHANGED <<context, tool_args>>
    /\ UNCHANGED chainFrame

\* the handler raises under audit_tool_calls' await: log, raise it again
AuditHandlerRaises(e, delivered) ==
    /\ chain_call.op = "audit_tool_calls" /\ chain_call.pc = "handler"
    /\ HandlerAnswers([status |-> "raised", error |-> e])
    /\ tool_log' = Append(tool_log,
                          LogRecord("error",
                                    <<"Tool execution failed (placeholder): ", e>>,
                                    delivered))
    /\ chain_outcome' = [status |-> "raised", error |-> e]
    /\ chain_call' = [chain_call EXCEPT !.pc = "done"]
    /\ UNCHANGED <<context, tool_args>>
    /\ UNCHANGED chainFrame

-----------------------------------------------------------------------------
(* LLMProvider: ainvoke and ainvoke_with_functions *)

\* the messages a caller passes, as (BaseMessage.type, BaseMessage.content):
\* each LangChain message type the conversion tells apart, one type with two
\* contents and one content under two types
Messages ==
    { [type |-> "system", content |-> "You are Ordo"],
      [type |-> "human",  content |-> "hello"],
      [type |-> "human",  content |-> "balance?"],
      [type |-> "ai",     content |-> "hello"],
      [type |-> "tool",   content |-> "balance?"] }

\* the conversations a caller passes: List[BaseMessage]
Conversations == UNION { [1..n -> Messages] : n \in 0..MaxMsgs }

\* the function schemas a caller passes to ainvoke_with_functions
FunctionLists == { <<"search_email">> }

\* the attempt carries no functions= keyword
NoFunctions == <<>>

\* what a provider answers with
ReplyContents == {"Mistral response", "OpenRouter response"}

\* what a provider fails with
Causes == {"TimeoutError", "HTTPStatusError"}

\* the role _agenerate gives a message, with every non-system message "user"
RoleOf_AiAsUser(type) == IF type = "system" THEN "system" ELSE "user"

\* the role _agenerate gives a message of a type (llm_provider.py:92-96)
RoleOf(type) ==
    IF type = "system" THEN "system"
    ELSE IF type = "ai" THEN "assistant"
    ELSE "user"

\* the conversion loop of OpenRouterChatModel._agenerate
OpenRouterMessages(messages) ==
    [i \in 1..Len(messages) |->
        [role |-> RoleOf(messages[i].type), content |-> messages[i].content]]

\* await self.primary_llm.ainvoke(messages, [functions=functions,] **kwargs)
PrimaryAttempt(messages, functions) ==
    [provider |-> "primary", messages |-> messages, functions |-> functions]

\* await self.fallback_llm._agenerate(messages, **kwargs): the payload posted
FallbackAttempt(messages) ==
    [provider  |-> "fallback",
     messages  |-> OpenRouterMessages(messages),
     functions |-> NoFunctions]

AIMessage(content) == [type |-> "ai", content |-> content]

NoCall == [op |-> "none", messages |-> <<>>, functions |-> NoFunctions]

NoOutcome == [status |-> "none"]

Returned(message) == [status |-> "returned", message |-> message]

\* raise RuntimeError(text)
RuntimeError(text) ==
    [status |-> "raised", error |-> [type |-> "RuntimeError", text |-> text]]

\* the error text without the cause
BothFailedText_NoCause(e) == <<"Both primary and fallback LLMs failed">>

\* the text of the error ainvoke raises when the fallback fails with e
BothFailedText(e) == <<"Both primary and fallback LLMs failed: ", e>>

\* the text of the error ainvoke raises when it reaches its last line
NoLLMText == <<"No LLM available (both primary and fallback are None)">>

\* the fallback section with its final raise forgotten: ainvoke falls off its
\* end and returns None when no fallback is configured
FallbackSection_NoRaise(messages, atts, reps) ==
    IF fallback_llm
    THEN /\ pc' = "fallback"
         /\ attempts' = Append(atts, FallbackAttempt(messages))
         /\ replies' = reps
         /\ outcome' = NoOutcome
    ELSE /\ pc' = "done"
         /\ attempts' = atts
         /\ replies' = reps
         /\ outcome' = Returned("None")

\* ainvoke from "if self.fallback_llm:" on (llm_provider.py:250-262), up to
\* the await of the fallback; atts and reps are the attempts and replies so far
FallbackSection(messages, atts, reps) ==
    IF fallback_llm
    THEN /\ pc' = "fallback"
         /\ attempts' = Append(atts, FallbackAttempt(messages))
         /\ replies' = reps
         /\ outcome' = NoOutcome
    ELSE /\ pc' = "done"
         /\ attempts' = atts
         /\ replies' = reps
         /\ outcome' = RuntimeError(NoLLMText)

\* ainvoke with the fallback tried before the primary
AinvokeBody_FallbackFirst(messages, atts, reps) ==
    IF fallback_llm
    THEN FallbackSection(messages, atts, reps)
    ELSE /\ primary_llm
         /\ pc' = "primary"
         /\ attempts' = Append(atts, PrimaryAttempt(messages, NoFunctions))
         /\ replies' = reps
         /\ outcome' = NoOutcome

\* ainvoke from its first line (llm_provider.py:239-243), up to its first await
AinvokeBody(messages, atts, reps) ==
    IF primary_llm
    THEN /\ pc' = "primary"
         /\ attempts' = Append(atts, PrimaryAttempt(messages, NoFunctions))
         /\ replies' = reps
         /\ outcome' = NoOutcome
    ELSE FallbackSection(messages, atts, reps)

\* a caller may start a call when none is in flight
CanCall ==
    /\ pc \in {"idle", "done"}
    /\ primary_count + fallback_count < MaxCalls

\* LLMProvider.ainvoke(messages) is called
Ainvoke(messages) ==
    /\ CanCall
    /\ call' = [op |-> "ainvoke", messages |-> messages,
                functions |-> NoFunctions]
    /\ AinvokeBody(messages, <<>>, <<>>)
    /\ UNCHANGED <<primary_llm, fallback_llm, primary_count, fallback_count>>
    /\ UNCHANGED gatewayFrame

\* ainvoke_with_functions that hands the function schemas on to ainvoke when
\* there is no primary, so that they reach the fallback
AinvokeWithFunctions_SchemasToFallback(messages, functions) ==
    /\ CanCall
    /\ call' = [op |-> "ainvoke_with_functions", messages |-> messages,
                functions |-> functions]
    /\ IF primary_llm
       THEN /\ pc' = "primary_fn"
            /\ attempts' = <<PrimaryAttempt(messages, functions)>>
            /\ replies' = <<>>
            /\ outcome' = NoOutcome
       ELSE IF fallback_llm
            THEN /\ pc' = "fallback"
                 /\ attempts' = <<[FallbackAttempt(messages)
                                     EXCEPT !.functions = functions]>>
                 /\ replies' = <<>>
                 /\ outcome' = NoOutcome
            ELSE AinvokeBody(messages, <<>>, <<>>)
    /\ UNCHANGED <<primary_llm, fallback_llm, primary_count, fallback_count>>
    /\ UNCHANGED gatewayFrame

\* LLMProvider.ainvoke_with_functions(messages, functions) is called
AinvokeWithFunctions(messages, functions) ==
    /\ CanCall
    /\ call' = [op |-> "ainvoke_with_functions", messages |-> messages,
                functions |-> functions]
    /\ IF primary_llm
       THEN /\ pc' = "primary_fn"
            /\ attempts' = <<PrimaryAttempt(messages, functions)>>
            /\ replies' = <<>>
            /\ outcome' = NoOutcome
       ELSE AinvokeBody(messages, <<>>, <<>>)
    /\ UNCHANGED <<primary_llm, fallback_llm, primary_count, fallback_count>>
    /\ UNCHANGED gatewayFrame

\* the primary answers ainvoke's await: count it and return its response
PrimaryReturns(content) ==
    /\ pc = "primary"
    /\ replies' = Append(replies, [ok |-> TRUE, value |-> AIMessage(content)])
    /\ primary_count' = primary_count + 1
    /\ outcome' = Returned(AIMessage(content))
    /\ pc' = "done"
    /\ UNCHANGED <<primary_llm, fallback_llm, fallback_count, call, attempts>>
    /\ UNCHANGED gatewayFrame

\* a primary failure answered by one more try of the primary
PrimaryRaises_Retry(e) ==
    /\ pc = "primary"
    /\ IF Cardinality({ i \in 1..Len(attempts) :
                          attempts[i].functions = NoFunctions }) < 2
       THEN /\ pc' = "primary"
            /\ attempts' = Append(attempts,
                                  PrimaryAttempt(call.messages, NoFunctions))
            /\ replies' = Append(replies, [ok |-> FALSE, value |-> e])
            /\ outcome' = NoOutcome
       ELSE FallbackSection(call.messages, attempts,
                            Append(replies, [ok |-> FALSE, value |-> e]))
    /\ UNCHANGED <<primary_llm, fallback_llm, primary_count, fallback_count,
                   call>>
    /\ UNCHANGED gatewayFrame

\* the primary raises e under ainvoke's await: warn, go on to the fallback
PrimaryRaises(e) ==
    /\ pc = "primary"
    /\ FallbackSection(call.messages, attempts,
                       Append(replies, [ok |-> FALSE, value |-> e]))
    /\ UNCHANGED <<primary_llm, fallback_llm, primary_count, fallback_count,
                   call>>
    /\ UNCHANGED gatewayFrame

\* the primary answers ainvoke_with_functions' await
FunctionCallReturns(content) ==
    /\ pc = "primary_fn"
    /\ replies' = Append(replies, [ok |-> TRUE, value |-> AIMessage(content)])
    /\ primary_count' = primary_count + 1
    /\ outcome' = Returned(AIMessage(content))
    /\ pc' = "done"
    /\ UNCHANGED <<primary_llm, fallback_llm, fallback_count, call, attempts>>
    /\ UNCHANGED gatewayFrame

\* the primary raises e under ainvoke_with_functions' await: warn, then
\* return await self.ainvoke(messages, **kwargs)
FunctionCallRaises(e) ==
    /\ pc = "primary_fn"
    /\ AinvokeBody(call.messages, attempts,
                   Append(replies, [ok |-> FALSE, value |-> e]))
    /\ UNCHANGED <<primary_llm, fallback_llm, primary_count, fallback_count,
                   call>>
    /\ UNCHANGED gatewayFrame

\* the fallback's answer counted on the primary's counter
FallbackReturns_CountsPrimary(content) ==
    /\ pc = "fallback"
    /\ replies' = Append(replies, [ok |-> TRUE, value |-> AIMessage(content)])
    /\ primary_count' = primary_count + 1
    /\ outcome' = Returned(AIMessage(content))
    /\ pc' = "done"
    /\ UNCHANGED <<primary_llm, fallback_llm, fallback_count, call, attempts>>
    /\ UNCHANGED gatewayFrame

\* the fallback answers: count it and return generations[0].message
FallbackReturns(content) ==
    /\ pc = "fallback"
    /\ replies' = Append(replies, [ok |-> TRUE, value |-> AIMessage(content)])
    /\ fallback_count' = fallback_count + 1
    /\ outcome' = Returned(AIMessage(content))
    /\ pc' = "done"
    /\ UNCHANGED <<primary_llm, fallback_llm, primary_count, call, attempts>>
    /\ UNCHANGED gatewayFrame

\* the fallback raises e: log it and raise RuntimeError
FallbackRaises(e) ==
    /\ pc = "fallback"
    /\ replies' = Append(replies, [ok |-> FALSE, value |-> e])
    /\ outcome' = RuntimeError(BothFailedText(e))
    /\ pc' = "done"
    /\ UNCHANGED <<primary_llm, fallback_llm, primary_count, fallback_count,
                   call, attempts>>
    /\ UNCHANGED gatewayFrame

-----------------------------------------------------------------------------
(* LLMProvider: get_stats and reset_stats *)

NoStats == [primary_count |-> 0, fallback_count |-> 0, total_count |-> 0]

\* LLMProvider.get_stats()
GetStats ==
    /\ stats' = [primary_count |-> primary_count,
                 fallback_count |-> fallback_count,
                 total_count |-> primary_count + fallback_count]
    /\ UNCHANGED <<primary_count, fallback_count>>
    /\ UNCHANGED statsFrame

\* a reset_stats that leaves the fallback's counter as it is
ResetStats_PrimaryOnly ==
    /\ primary_count' = 0
    /\ UNCHANGED <<fallback_count, stats>>
    /\ UNCHANGED statsFrame

\* LLMProvider.reset_stats()
ResetStats ==
    /\ primary_count' = 0
    /\ fallback_count' = 0
    /\ UNCHANGED stats
    /\ UNCHANGED statsFrame

-----------------------------------------------------------------------------
(* LLMProvider: several callers of ainvoke and ainvoke_with_functions at    *)
(* once. A caller's coroutine runs from one await to the next without       *)
(* giving way, so each action below is one such stretch of one caller.      *)

Tasks == 1..MaxTasks

TaskIdle == [pc |-> "idle", op |-> "none", outcome |-> "none"]

\* where a caller of ainvoke is once it has gone through the fallback
\* section up to the await (llm_provider.py:250-262)
TaskAtFallback(task) ==
    IF fallback_llm
    THEN [task EXCEPT !.pc = "fallback"]
    ELSE [task EXCEPT !.pc = "done", !.outcome = "raised"]

\* where a caller is once it has gone through ainvoke up to its first await
\* (llm_provider.py:239-243)
TaskAtAinvoke(task) ==
    IF primary_llm
    THEN [task EXCEPT !.pc = "primary"]
    ELSE TaskAtFallback(task)

\* caller t calls ainvoke or ainvoke_with_functions
TaskCalls(t, op) ==
    /\ tasks[t].pc = "idle"
    /\ tasks' = [tasks EXCEPT ![t] =
                    IF op = "ainvoke_with_functions" /\ primary_llm
                    THEN [pc |-> "primary_fn", op |-> op, outcome |-> "none"]
                    ELSE TaskAtAinvoke([pc |-> "idle", op |-> op,
                                        outcome |-> "none"])]
    /\ UNCHANGED <<primary_count, fallback_count>>
    /\ UNCHANGED taskFrame

\* an answer of the primary that leaves its counter as it is
TaskPrimaryReturns_NotCounted(t) ==
    /\ tasks[t].pc \in {"primary", "primary_fn"}
    /\ tasks' = [tasks EXCEPT ![t].pc = "done", ![t].outcome = "returned"]
    /\ UNCHANGED <<primary_count, fallback_count>>
    /\ UNCHANGED taskFrame

\* the primary answers caller t: self.primary_count += 1; return response
TaskPrimaryReturns(t) ==
    /\ tasks[t].pc \in {"primary", "primary_fn"}
    /\ primary_count' = primary_count + 1
    /\ tasks' = [tasks EXCEPT ![t].pc = "done", ![t].outcome = "returned"]
    /\ UNCHANGED fallback_count
    /\ UNCHANGED taskFrame

\* the primary raises under caller t's await
TaskPrimaryRaises(t) ==
    /\ tasks[t].pc \in {"primary", "primary_fn"}
    /\ tasks' = [tasks EXCEPT ![t] =
                    IF tasks[t].pc = "primary_fn"
                    THEN TaskAtAinvoke(tasks[t])
                    ELSE TaskAtFallback(tasks[t])]
    /\ UNCHANGED <<primary_count, fallback_count>>
    /\ UNCHANGED taskFrame

\* the fallback answers caller t: self.fallback_count += 1; return the message
TaskFallbackReturns(t) ==
    /\ tasks[t].pc = "fallback"
    /\ fallback_count' = fallback_count + 1
    /\ tasks' = [tasks EXCEPT ![t].pc = "done", ![t].outcome = "returned"]
    /\ UNCHANGED primary_count
    /\ UNCHANGED taskFrame

\* the fallback raises under caller t's await
TaskFallbackRaises(t) ==
    /\ tasks[t].pc = "fallback"
    /\ tasks' = [tasks EXCEPT ![t].pc = "done", ![t].outcome = "raised"]
    /\ UNCHANGED <<primary_count, fallback_count>>
    /\ UNCHANGED taskFrame

-----------------------------------------------------------------------------
(* PolicyEngine: the detectors *)

\* A compiled pattern is a tree of these nodes; re.IGNORECASE | re.MULTILINE
\* (_compile_patterns) are built into how Ends reads them.
\* a run of literal characters
Lit(s) == [op |-> "lit", s |-> s]
\* one character of a set: [...], \d, \s, \w
In(set) == [op |-> "in", set |-> set]
\* one node after another
Cat(args) == [op |-> "cat", args |-> args]
\* a|b|c
Alt(args) == [op |-> "alt", args |-> args]
\* x{min,max}, x? (0 to 1)
Rep(min, max, arg) == [op |-> "rep", min |-> min, max |-> max, arg |-> arg]
\* x{min,}, x* (0 or more), x+ (1 or more)
AtLeast(min, arg) == [op |-> "atleast", min |-> min, arg |-> arg]
\* \b
Boundary == [op |-> "boundary"]
\* $ under re.MULTILINE
EndOfLine == [op |-> "eol"]
\* (?=x)
Ahead(arg) == [op |-> "ahead", arg |-> arg]

\* \d
Digit == {"0","1","2","3","4","5","6","7","8","9"}
\* A-Z
UpperLetters == { UpperCase[i] : i \in 1..Len(UpperCase) }
LowerLetters == { LowerCase[i] : i \in 1..Len(LowerCase) }
\* \w
Word == Digit \cup UpperLetters \cup LowerLetters \cup {"_"}
\* \s
Space == {" ", "\t", "\n", "\r", "\f"}

UpperChar(c) ==
    IF \E i \in 1..Len(LowerCase) : LowerCase[i] = c
    THEN UpperCase[CHOOSE i \in 1..Len(LowerCase) : LowerCase[i] = c]
    ELSE c

\* c is in the set, whatever its case (re.IGNORECASE)
CharIn(c, set) == c \in set \/ LowerChar(c) \in set \/ UpperChar(c) \in set

\* the character before offset i of s is a word character
WordBefore(s, i) == i >= 1 /\ i <= Len(s) /\ s[i] \in Word

RECURSIVE Ends(_, _, _)
RECURSIVE CatEnds(_, _, _, _)
RECURSIVE RepEnds(_, _, _, _, _, _)

\* every offset of s at which a match of node n that starts at offset i can
\* end (offsets count the characters before the place, from 0)
Ends(n, s, i) ==
    CASE n.op = "lit" ->
           IF /\ i + Len(n.s) <= Len(s)
              /\ \A j \in 1..Len(n.s) : LowerChar(s[i + j]) = LowerChar(n.s[j])
           THEN {i + Len(n.s)} ELSE {}
      [] n.op = "in" ->
           IF i < Len(s) /\ CharIn(s[i + 1], n.set) THEN {i + 1} ELSE {}
      [] n.op = "cat" -> CatEnds(n.args, s, {i}, 1)
      [] n.op = "alt" -> UNION { Ends(n.args[k], s, i) : k \in 1..Len(n.args) }
      [] n.op = "rep" -> RepEnds(n.arg, n.min, n.max, s, {i}, 0)
      [] n.op = "atleast" -> RepEnds(n.arg, n.min, Len(s), s, {i}, 0)
      [] n.op = "boundary" ->
           IF WordBefore(s, i) # WordBefore(s, i + 1) THEN {i} ELSE {}
      [] n.op = "eol" ->
           IF i = Len(s) \/ s[i + 1] = "\n" THEN {i} ELSE {}
      [] n.op = "ahead" -> IF Ends(n.arg, s, i) # {} THEN {i} ELSE {}

\* the ends of args[k], args[k+1], ... matched in a row from any of `from`
CatEnds(args, s, from, k) ==
    IF k > Len(args) \/ from = {}
    THEN from
    ELSE CatEnds(args, s, UNION { Ends(args[k], s, j) : j \in from }, k + 1)

\* `from` is where k repetitions of arg can end; the ends of min to max of them
RepEnds(arg, min, max, s, from, k) ==
    (IF k >= min THEN from ELSE {})
      \cup (IF k < max /\ from # {}
            THEN RepEnds(arg, min, max, s,
                         UNION { Ends(arg, s, j) : j \in from }, k + 1)
            ELSE {})

\* pattern.search(text)
Search(pattern, text) == \E i \in 0..Len(text) : Ends(pattern, text, i) # {}

\* PolicyEngine.PATTERNS, in the order of the dictionary
PATTERNS ==
    << [name |-> <<"O","T","P","_","C","O","D","E","_","S","T","A","N","D","A","L","O","N","E">>,
        pattern |->
        \* r'\b\d{4,8}\b(?=\s*(?:is|:|$))'
            Cat(<<Boundary, Rep(4, 8, In(Digit)), Boundary, Ahead(Cat(<<AtLeast(0,
            In(Space)), Alt(<<Lit(<<"i","s">>), Lit(<<":">>), EndOfLine>>)>>))>>)],
       [name |-> <<"O","T","P","_","C","O","D","E","_","W","I","T","H","_","C","O","N","T","E","X","T">>,
        pattern |->
        \* r'(?:code|otp|pin|token)[\s:]*\d{4,8}\b'
            Cat(<<Alt(<<Lit(<<"c","o","d","e">>), Lit(<<"o","t","p">>),
            Lit(<<"p","i","n">>), Lit(<<"t","o","k","e","n">>)>>), AtLeast(0,
            In(Space \cup {":"})), Rep(4, 8, In(Digit)), Boundary>>)],
       [name |-> <<"O","T","P","_","C","O","D","E","_","Y","O","U","R">>,
        pattern |->
        \* r'(?:your|the)\s+(?:code|otp|pin|token)[\s:]*(?:is|:)?\s*\d{4,8}\b'
            Cat(<<Alt(<<Lit(<<"y","o","u","r">>), Lit(<<"t","h","e">>)>>), AtLeast(1,
            In(Space)), Alt(<<Lit(<<"c","o","d","e">>), Lit(<<"o","t","p">>),
            Lit(<<"p","i","n">>), Lit(<<"t","o","k","e","n">>)>>), AtLeast(0,
            In(Space \cup {":"})), Rep(0, 1, Alt(<<Lit(<<"i","s">>),
            Lit(<<":">>)>>)), AtLeast(0, In(Space)), Rep(4, 8, In(Digit)),
            Boundary>>)],
       [name |-> <<"O","T","P","_","C","O","D","E","_","S","E","N","T">>,
        pattern |->
        \* r'(?:sent|texted|emailed)\s+(?:you|your)?\s*(?:a|an|the)?\s*(?:code|otp|pin)[\s:]*\d{4,8}\b'
            Cat(<<Alt(<<Lit(<<"s","e","n","t">>), Lit(<<"t","e","x","t","e","d">>),
            Lit(<<"e","m","a","i","l","e","d">>)>>), AtLeast(1, In(Space)), Rep(0, 1,
            Alt(<<Lit(<<"y","o","u">>), Lit(<<"y","o","u","r">>)>>)), AtLeast(0,
            In(Space)), Rep(0, 1, Alt(<<Lit(<<"a">>), Lit(<<"a","n">>),
            Lit(<<"t","h","e">>)>>)), AtLeast(0, In(Space)),
            Alt(<<Lit(<<"c","o","d","e">>), Lit(<<"o","t","p">>),
            Lit(<<"p","i","n">>)>>), AtLeast(0, In(Space \cup {":"})), Rep(4, 8,
            In(Digit)), Boundary>>)],
       [name |-> <<"V","E","R","I","F","I","C","A","T","I","O","N","_","C","O","D","E">>,
        pattern |->
        \* r'(?:verification|verify|confirm|authentication|auth)[\s\w]*(?:code|token|pin)[\s:]*\d{4,8}\b'
            Cat(<<Alt(<<Lit(<<"v","e","r","i","f","i","c","a","t","i","o","n">>),
            Lit(<<"v","e","r","i","f","y">>), Lit(<<"c","o","n","f","i","r","m">>),
            Lit(<<"a","u","t","h","e","n","t","i","c","a","t","i","o","n">>),
            Lit(<<"a","u","t","h">>)>>), AtLeast(0, In(Space \cup Word)),
            Alt(<<Lit(<<"c","o","d","e">>), Lit(<<"t","o","k","e","n">>),
            Lit(<<"p","i","n">>)>>), AtLeast(0, In(Space \cup {":"})), Rep(4, 8,
            In(Digit)), Boundary>>)],
       [name |-> <<"V","E","R","I","F","I","C","A","T","I","O","N","_","L","I","N","K">>,
        pattern |->
        \* r'(?:verify|confirm|validate)[\s\w]*(?:email|account|identity|phone)'
            Cat(<<Alt(<<Lit(<<"v","e","r","i","f","y">>),
            Lit(<<"c","o","n","f","i","r","m">>),
            Lit(<<"v","a","l","i","d","a","t","e">>)>>), AtLeast(0,
            In(Space \cup Word)), Alt(<<Lit(<<"e","m","a","i","l">>),
            Lit(<<"a","c","c","o","u","n","t">>),
            Lit(<<"i","d","e","n","t","i","t","y">>),
            Lit(<<"p","h","o","n","e">>)>>)>>)],
       [name |-> <<"V","E","R","I","F","I","C","A","T","I","O","N","_","I","N","S","T","R","U","C","T","I","O","N">>,
        pattern |->
        \* r'(?:enter|use|type)\s+(?:this|the|your)?\s*(?:code|token|pin)[\s:]*\d{4,8}\b'
            Cat(<<Alt(<<Lit(<<"e","n","t","e","r">>), Lit(<<"u","s","e">>),
            Lit(<<"t","y","p","e">>)>>), AtLeast(1, In(Space)), Rep(0, 1,
            Alt(<<Lit(<<"t","h","i","s">>), Lit(<<"t","h","e">>),
            Lit(<<"y","o","u","r">>)>>)), AtLeast(0, In(Space)),
            Alt(<<Lit(<<"c","o","d","e">>), Lit(<<"t","o","k","e","n">>),
            Lit(<<"p","i","n">>)>>), AtLeast(0, In(Space \cup {":"})), Rep(4, 8,
            In(Digit)), Boundary>>)],
       [name |-> <<"R","E","C","O","V","E","R","Y","_","P","H","R","A","S","E","_","N","U","M","B","E","R","E","D">>,
        pattern |->
        \* r'(?:\d+[\.\)]\s*\w+\s*){11,}'
            AtLeast(11, Cat(<<AtLeast(1, In(Digit)), In({".", ")"}), AtLeast(0,
            In(Space)), AtLeast(1, In(Word)), AtLeast(0, In(Space))>>))],
       [name |-> <<"R","E","C","O","V","E","R","Y","_","P","H","R","A","S","E","_","S","E","E","D">>,
        pattern |->
        \* r'(?:seed|recovery|backup|mnemonic)\s+(?:phrase|words|key)'
            Cat(<<Alt(<<Lit(<<"s","e","e","d">>),
            Lit(<<"r","e","c","o","v","e","r","y">>),
            Lit(<<"b","a","c","k","u","p">>),
            Lit(<<"m","n","e","m","o","n","i","c">>)>>), AtLeast(1, In(Space)),
            Alt(<<Lit(<<"p","h","r","a","s","e">>), Lit(<<"w","o","r","d","s">>),
            Lit(<<"k","e","y">>)>>)>>)],
       [name |-> <<"R","E","C","O","V","E","R","Y","_","P","H","R","A","S","E","_","W","O","R","D","S">>,
        pattern |->
        \* r'\b(?:word\s+\d+|1\.\s*\w+\s+2\.\s*\w+)'
            Cat(<<Boundary, Alt(<<Cat(<<Lit(<<"w","o","r","d">>), AtLeast(1,
            In(Space)), AtLeast(1, In(Digit))>>), Cat(<<Lit(<<"1",".">>), AtLeast(0,
            In(Space)), AtLeast(1, In(Word)), AtLeast(1, In(Space)),
            Lit(<<"2",".">>), AtLeast(0, In(Space)), AtLeast(1, In(Word))>>)>>)>>)],
       [name |-> <<"R","E","C","O","V","E","R","Y","_","P","H","R","A","S","E","_","S","E","Q","U","E","N","C","E">>,
        pattern |->
        \* r'(?:\w+\s+){11,23}\w+(?=\s*$|\s*\n)'
            Cat(<<Rep(11, 23, Cat(<<AtLeast(1, In(Word)), AtLeast(1, In(Space))>>)),
            AtLeast(1, In(Word)), Ahead(Alt(<<Cat(<<AtLeast(0, In(Space)),
            EndOfLine>>), Cat(<<AtLeast(0, In(Space)), Lit(<<"\n">>)>>)>>))>>)],
       [name |-> <<"P","A","S","S","W","O","R","D","_","R","E","S","E","T">>,
        pattern |->
        \* r'(?:reset|change|recover|forgot)[\s\w]*password'
            Cat(<<Alt(<<Lit(<<"r","e","s","e","t">>),
            Lit(<<"c","h","a","n","g","e">>), Lit(<<"r","e","c","o","v","e","r">>),
            Lit(<<"f","o","r","g","o","t">>)>>), AtLeast(0, In(Space \cup Word)),
            Lit(<<"p","a","s","s","w","o","r","d">>)>>)],
       [name |-> <<"P","A","S","S","W","O","R","D","_","R","E","S","E","T","_","L","I","N","K">>,
        pattern |->
        \* r'(?:password|account)\s+(?:reset|recovery)\s+(?:link|url|request)'
            Cat(<<Alt(<<Lit(<<"p","a","s","s","w","o","r","d">>),
            Lit(<<"a","c","c","o","u","n","t">>)>>), AtLeast(1, In(Space)),
            Alt(<<Lit(<<"r","e","s","e","t">>),
            Lit(<<"r","e","c","o","v","e","r","y">>)>>), AtLeast(1, In(Space)),
            Alt(<<Lit(<<"l","i","n","k">>), Lit(<<"u","r","l">>),
            Lit(<<"r","e","q","u","e","s","t">>)>>)>>)],
       [name |-> <<"P","A","S","S","W","O","R","D","_","R","E","S","E","T","_","I","N","S","T","R","U","C","T","I","O","N">>,
        pattern |->
        \* r'(?:click|tap|follow)[\s\w]*(?:reset|change)[\s\w]*password'
            Cat(<<Alt(<<Lit(<<"c","l","i","c","k">>), Lit(<<"t","a","p">>),
            Lit(<<"f","o","l","l","o","w">>)>>), AtLeast(0, In(Space \cup Word)),
            Alt(<<Lit(<<"r","e","s","e","t">>), Lit(<<"c","h","a","n","g","e">>)>>),
            AtLeast(0, In(Space \cup Word)),
            Lit(<<"p","a","s","s","w","o","r","d">>)>>)],
       [name |-> <<"P","A","S","S","W","O","R","D","_","N","E","W">>,
        pattern |->
        \* r'(?:new|temporary|initial)\s+password[\s:]*\w+'
            Cat(<<Alt(<<Lit(<<"n","e","w">>),
            Lit(<<"t","e","m","p","o","r","a","r","y">>),
            Lit(<<"i","n","i","t","i","a","l">>)>>), AtLeast(1, In(Space)),
            Lit(<<"p","a","s","s","w","o","r","d">>), AtLeast(0,
            In(Space \cup {":"})), AtLeast(1, In(Word))>>)],
       [name |-> <<"B","A","N","K","_","S","T","A","T","E","M","E","N","T">>,
        pattern |->
        \* r'(?:bank|account)\s+statement'
            Cat(<<Alt(<<Lit(<<"b","a","n","k">>),
            Lit(<<"a","c","c","o","u","n","t">>)>>), AtLeast(1, In(Space)),
            Lit(<<"s","t","a","t","e","m","e","n","t">>)>>)],
       [name |-> <<"A","C","C","O","U","N","T","_","B","A","L","A","N","C","E">>,
        pattern |->
        \* r'(?:account|current|available)\s+balance[\s:]*\$?\d+'
            Cat(<<Alt(<<Lit(<<"a","c","c","o","u","n","t">>),
            Lit(<<"c","u","r","r","e","n","t">>),
            Lit(<<"a","v","a","i","l","a","b","l","e">>)>>), AtLeast(1, In(Space)),
            Lit(<<"b","a","l","a","n","c","e">>), AtLeast(0, In(Space \cup {":"})),
            Rep(0, 1, Lit(<<"$">>)), AtLeast(1, In(Digit))>>)],
       [name |-> <<"R","O","U","T","I","N","G","_","N","U","M","B","E","R">>,
        pattern |->
        \* r'routing\s+(?:number|#)[\s:]*\d{9}'
            Cat(<<Lit(<<"r","o","u","t","i","n","g">>), AtLeast(1, In(Space)),
            Alt(<<Lit(<<"n","u","m","b","e","r">>), Lit(<<"#">>)>>), AtLeast(0,
            In(Space \cup {":"})), Rep(9, 9, In(Digit))>>)],
       [name |-> <<"A","C","C","O","U","N","T","_","N","U","M","B","E","R">>,
        pattern |->
        \* r'account\s+(?:number|#)[\s:]*\d{4,}'
            Cat(<<Lit(<<"a","c","c","o","u","n","t">>), AtLeast(1, In(Space)),
            Alt(<<Lit(<<"n","u","m","b","e","r">>), Lit(<<"#">>)>>), AtLeast(0,
            In(Space \cup {":"})), AtLeast(4, In(Digit))>>)],
       [name |-> <<"W","I","R","E","_","T","R","A","N","S","F","E","R">>,
        pattern |->
        \* r'(?:wire|ach|direct)\s+(?:transfer|deposit)'
            Cat(<<Alt(<<Lit(<<"w","i","r","e">>), Lit(<<"a","c","h">>),
            Lit(<<"d","i","r","e","c","t">>)>>), AtLeast(1, In(Space)),
            Alt(<<Lit(<<"t","r","a","n","s","f","e","r">>),
            Lit(<<"d","e","p","o","s","i","t">>)>>)>>)],
       [name |-> <<"S","T","A","T","E","M","E","N","T","_","P","E","R","I","O","D">>,
        pattern |->
        \* r'statement\s+(?:period|date|for)[\s:]*\d{1,2}[/-]\d{1,2}'
            Cat(<<Lit(<<"s","t","a","t","e","m","e","n","t">>), AtLeast(1,
            In(Space)), Alt(<<Lit(<<"p","e","r","i","o","d">>),
            Lit(<<"d","a","t","e">>), Lit(<<"f","o","r">>)>>), AtLeast(0,
            In(Space \cup {":"})), Rep(1, 2, In(Digit)), In({"/", "-"}), Rep(1, 2,
            In(Digit))>>)],
       [name |-> <<"T","A","X","_","D","O","C","U","M","E","N","T","_","W","2">>,
        pattern |->
        \* r'\bW-?2\b'
            Cat(<<Boundary, Lit(<<"W">>), Rep(0, 1, Lit(<<"-">>)), Lit(<<"2">>),
            Boundary>>)],
       [name |-> <<"T","A","X","_","D","O","C","U","M","E","N","T","_","1","0","9","9">>,
        pattern |->
        \* r'\b1099(?:-[A-Z]+)?\b'
            Cat(<<Boundary, Lit(<<"1","0","9","9">>), Rep(0, 1, Cat(<<Lit(<<"-">>),
            AtLeast(1, In(UpperLetters))>>)), Boundary>>)],
       [name |-> <<"T","A","X","_","R","E","T","U","R","N">>,
        pattern |->
        \* r'tax\s+return'
            Cat(<<Lit(<<"t","a","x">>), AtLeast(1, In(Space)),
            Lit(<<"r","e","t","u","r","n">>)>>)],
       [name |-> <<"T","A","X","_","F","O","R","M">>,
        pattern |->
        \* r'(?:tax|irs)\s+form'
            Cat(<<Alt(<<Lit(<<"t","a","x">>), Lit(<<"i","r","s">>)>>), AtLeast(1,
            In(Space)), Lit(<<"f","o","r","m">>)>>)],
       [name |-> <<"T","A","X","_","Y","E","A","R">>,
        pattern |->
        \* r'(?:tax|filing)\s+year[\s:]*\d{4}'
            Cat(<<Alt(<<Lit(<<"t","a","x">>), Lit(<<"f","i","l","i","n","g">>)>>),
            AtLeast(1, In(Space)), Lit(<<"y","e","a","r">>), AtLeast(0,
            In(Space \cup {":"})), Rep(4, 4, In(Digit))>>)],
       [name |-> <<"S","S","N">>,
        pattern |->
        \* r'\b\d{3}-\d{2}-\d{4}\b'
            Cat(<<Boundary, Rep(3, 3, In(Digit)), Lit(<<"-">>), Rep(2, 2, In(Digit)),
            Lit(<<"-">>), Rep(4, 4, In(Digit)), Boundary>>)],
       [name |-> <<"E","I","N">>,
        pattern |->
        \* r'(?:ein|employer\s+id)[\s:]*\d{2}-\d{7}'
            Cat(<<Alt(<<Lit(<<"e","i","n">>),
            Cat(<<Lit(<<"e","m","p","l","o","y","e","r">>), AtLeast(1, In(Space)),
            Lit(<<"i","d">>)>>)>>), AtLeast(0, In(Space \cup {":"})), Rep(2, 2,
            In(Digit)), Lit(<<"-">>), Rep(7, 7, In(Digit))>>)],
       [name |-> <<"C","R","E","D","I","T","_","C","A","R","D">>,
        pattern |->
        \* r'\b\d{4}[\s-]?\d{4}[\s-]?\d{4}[\s-]?\d{4}\b'
            Cat(<<Boundary, Rep(4, 4, In(Digit)), Rep(0, 1, In(Space \cup {"-"})),
            Rep(4, 4, In(Digit)), Rep(0, 1, In(Space \cup {"-"})), Rep(4, 4,
            In(Digit)), Rep(0, 1, In(Space \cup {"-"})), Rep(4, 4, In(Digit)),
            Boundary>>)],
       [name |-> <<"C","V","V">>,
        pattern |->
        \* r'\b(?:cvv|cvc|security\s+code)[\s:]*\d{3,4}\b'
            Cat(<<Boundary, Alt(<<Lit(<<"c","v","v">>), Lit(<<"c","v","c">>),
            Cat(<<Lit(<<"s","e","c","u","r","i","t","y">>), AtLeast(1, In(Space)),
            Lit(<<"c","o","d","e">>)>>)>>), AtLeast(0, In(Space \cup {":"})), Rep(3,
            4, In(Digit)), Boundary>>)],
       [name |-> <<"C","A","R","D","_","E","X","P","I","R","Y">>,
        pattern |->
        \* r'(?:exp|expiry|expires)[\s:]*\d{1,2}[/-]\d{2,4}'
            Cat(<<Alt(<<Lit(<<"e","x","p">>), Lit(<<"e","x","p","i","r","y">>),
            Lit(<<"e","x","p","i","r","e","s">>)>>), AtLeast(0,
            In(Space \cup {":"})), Rep(1, 2, In(Digit)), In({"/", "-"}), Rep(2, 4,
            In(Digit))>>)] >>


\* the keys of PATTERNS
PatternNames == { PATTERNS[i].name : i \in 1..Len(PATTERNS) }

\* PolicyEngine._categorize_patterns: the detector names of each category
pattern_categories ==
    LET Kw_OTP == <<"O","T","P">>
        Kw_VERIFICATION == <<"V","E","R","I","F","I","C","A","T","I","O","N">>
        Kw_RECOVERY == <<"R","E","C","O","V","E","R","Y">>
        Kw_PASSWORD == <<"P","A","S","S","W","O","R","D">>
        Kw_BANK == <<"B","A","N","K">>
        Kw_ACCOUNT == <<"A","C","C","O","U","N","T">>
        Kw_ROUTING == <<"R","O","U","T","I","N","G">>
        Kw_WIRE == <<"W","I","R","E">>
        Kw_TAX == <<"T","A","X">>
        Kw_SSN == <<"S","S","N">>
        Kw_EIN == <<"E","I","N">>
        Kw_CARD == <<"C","A","R","D">>
        Kw_CVV == <<"C","V","V">>
        Kw_CREDIT_CARD == <<"C","R","E","D","I","T","_","C","A","R","D">>
    IN
    (Kw_OTP :> { k \in PatternNames : Contains(k, Kw_OTP) })
 @@ (Kw_VERIFICATION :> { k \in PatternNames : Contains(k, Kw_VERIFICATION) })
 @@ (Kw_RECOVERY :> { k \in PatternNames : Contains(k, Kw_RECOVERY) })
 @@ (Kw_PASSWORD :> { k \in PatternNames : Contains(k, Kw_PASSWORD) })
 @@ (Kw_BANK :> { k \in PatternNames :
                    \/ Contains(k, Kw_BANK) \/ Contains(k, Kw_ACCOUNT)
                    \/ Contains(k, Kw_ROUTING) \/ Contains(k, Kw_WIRE) })
 @@ (Kw_TAX :> { k \in PatternNames :
                    \/ Contains(k, Kw_TAX) \/ Contains(k, Kw_SSN)
                    \/ Contains(k, Kw_EIN) })
 @@ (Kw_CREDIT_CARD :> { k \in PatternNames :
                    Contains(k, Kw_CARD) \/ Contains(k, Kw_CVV) })

-----------------------------------------------------------------------------
(* Python values whose type the code tests *)

\* None
PyNone == [type |-> "NoneType"]

\* a str: the text is a sequence, of characters or of longer strings
PyStr(s) == [type |-> "str", str |-> s]

\* a list
PyList(l) == [type |-> "list", list |-> l]

\* a dict
PyDict(d) == [type |-> "dict", dict |-> d]

\* the truth value of v, as `if v:` takes it
Truthy(v) ==
    CASE v.type = "NoneType" -> FALSE
      [] v.type = "str" -> v.str # <<>>
      [] v.type = "list" -> v.list # <<>>
      [] v.type = "dict" -> DOMAIN v.dict # {}

-----------------------------------------------------------------------------
(* PolicyEngine: is_sensitive, filter_emails, filter_messages *)

\* None where the code expects a text
NoText == <<"None">>

\* the items the model lists: dictionaries, some without the fields a filter
\* reads, some with an empty text or with None for it
EmailItems ==
    { [id |-> "e1", subject |-> <<"L","u","n","c","h">>,
       body |-> <<"S","e","e"," ","y","o","u"," ","a","t"," ","n","o","o","n">>],
      [id |-> "e2", subject |-> <<"V","e","r","i","f","y"," ","y","o","u","r"," ","e","m","a","i","l">>,
       body |-> <<"Y","o","u","r"," ","v","e","r","i","f","i","c","a","t","i","o","n"," ","c","o","d","e"," ","i","s"," ","1","2","3","4","5","6">>],
      [id |-> "e3", subject |-> <<"b","a","n","k">>,
       body |-> <<"s","t","a","t","e","m","e","n","t"," ","a","t","t","a","c","h","e","d">>],
      [id |-> "e4", subject |-> <<"H","i">>],
      [id |-> "e5", body |-> <<"R","e","s","e","t"," ","y","o","u","r"," ","p","a","s","s","w","o","r","d">>],
      [id |-> "e6", subject |-> <<>>, body |-> <<>>] }

MessageItems ==
    { [id |-> "m1", text |-> <<"h","e","l","l","o"," ","t","h","e","r","e">>],
      [id |-> "m2", text |-> <<"Y","o","u","r"," ","v","e","r","i","f","i","c","a","t","i","o","n"," ","c","o","d","e"," ","i","s"," ","1","2","3","4","5","6">>],
      [id |-> "m3", text |-> <<>>],
      [id |-> "m5", text |-> NoText],
      [id |-> "m4", text |-> <<"C","a","r","d"," ","4","1","1","1"," ","1","1","1","1"," ","1","1","1","1"," ","1","1","1","1"," ","c","v","v"," ","1","2","3">>] }

Items == EmailItems \cup MessageItems

\* the item of the model with this id
ItemById(id) == CHOOSE item \in Items : item.id = id

\* the lists a filter is given
ItemLists == UNION { [1..n -> Items] : n \in 0..MaxItems }

\* dict.get(key, default)
Get(d, key, default) == IF key \in DOMAIN d THEN d[key] ELSE default

\* a combined_text that leaves the subject out
combined_text_BodyOnly(email) == Get(email, "body", <<>>)

\* filter_emails: combined_text = f"{subject} {body}"
combined_text(email) ==
    Get(email, "subject", <<>>) \o <<" ">> \o Get(email, "body", <<>>)

\* the names of the patterns that search finds in text, in PATTERNS' order
matched_patterns(text) ==
    LET hits == SelectSeq(PATTERNS, LAMBDA p : Search(p.pattern, text))
    IN  [i \in 1..Len(hits) |-> hits[i].name]

\* every text the items of the model present to is_sensitive
Texts ==
    ( { combined_text(item) : item \in Items }
        \cup { Get(item, "text", <<>>) : item \in Items } ) \ {NoText}

\* matched_patterns of every text of the model, computed once
Scanned == [text \in Texts |-> matched_patterns(text)]

\* an is_sensitive that reports a text it was not given as sensitive
is_sensitive_AbsentIsSensitive(text) ==
    IF text = <<>> \/ text = NoText
    THEN <<TRUE, <<>>>>
    ELSE LET matched == Scanned[text]
         IN  <<Len(matched) > 0, matched>>

\* PolicyEngine.is_sensitive(text): (is_sensitive, matched_patterns)
is_sensitive(text) ==
    IF text = <<>> \/ text = NoText
    THEN <<FALSE, <<>>>>
    ELSE LET matched == Scanned[text]
         IN  <<Len(matched) > 0, matched>>

\* what the loops of the filters keep from one item to the next
NoneBlocked ==
    [filtered |-> <<>>, blocked_count |-> 0, blocked_patterns |-> <<>>]

\* a pass that counts the matched patterns, not the item
Tally_CountsPatterns(acc, item, scan) ==
    IF scan[1]
    THEN [acc EXCEPT !.blocked_count = @ + Len(scan[2]),
                     !.blocked_patterns = @ \o scan[2]]
    ELSE [acc EXCEPT !.filtered = Append(@, item)]

\* a pass that stops scanning after the first item it blocked
Tally_ScansUntilBlock(acc, item, scan) ==
    IF scan[1] /\ acc.blocked_count = 0
    THEN [acc EXCEPT !.blocked_count = @ + 1,
                     !.blocked_patterns = @ \o scan[2]]
    ELSE [acc EXCEPT !.filtered = Append(@, item)]

\* the rest of one pass of `for email in emails` / `for message in
\* messages`, scan being the (is_sensitive, patterns) of the item
Tally(acc, item, scan) ==
    IF scan[1]
    THEN [acc EXCEPT !.blocked_count = @ + 1,
                     !.blocked_patterns = @ \o scan[2]]
    ELSE [acc EXCEPT !.filtered = Append(@, item)]

\* one pass of the loop, text being what is_sensitive is given for the item
LoopBody(acc, item, text) == Tally(acc, item, is_sensitive(text))

RECURSIVE EmailsLoop(_, _, _)
EmailsLoop(emails, i, acc) ==
    IF i > Len(emails)
    THEN acc
    ELSE EmailsLoop(emails, i + 1,
                    LoopBody(acc, emails[i], combined_text(emails[i])))

RECURSIVE MessagesLoop(_, _, _)
MessagesLoop(messages, i, acc) ==
    IF i > Len(messages)
    THEN acc
    ELSE MessagesLoop(messages, i + 1,
                      LoopBody(acc, messages[i], Get(messages[i], "text", <<>>)))

\* list(set(blocked_patterns)): the elements, each once, in no fixed order
ListOfSet(list) == { list[i] : i \in 1..Len(list) }

\* PolicyEngine.filter_emails(emails)
filter_emails(emails) ==
    LET acc == EmailsLoop(emails, 1, NoneBlocked)
    IN  [emails |-> acc.filtered,
         blocked_count |-> acc.blocked_count,
         blocked_patterns |-> ListOfSet(acc.blocked_patterns)]

\* PolicyEngine.filter_messages(messages)
filter_messages(messages) ==
    LET acc == MessagesLoop(messages, 1, NoneBlocked)
    IN  [messages |-> acc.filtered,
         blocked_count |-> acc.blocked_count,
         blocked_patterns |-> ListOfSet(acc.blocked_patterns)]

\* no filter called yet
NoFilterCalls == <<>>

\* what a filter kept, under the key of the filter
Kept(c) ==
    IF c.op = "filter_emails" THEN c.result.emails ELSE c.result.messages

\* filter_emails is called on the list at hand; the caller goes on with the
\* list it returns
FilterEmails ==
    /\ Len(policy_calls) < MaxFilters
    /\ policy_calls' = Append(policy_calls,
                              [op |-> "filter_emails", items |-> policy_arg,
                               result |-> filter_emails(policy_arg)])
    /\ policy_arg' = Kept(policy_calls'[Len(policy_calls')])
    /\ UNCHANGED policyFrame

\* filter_messages is called on the list at hand; the caller goes on with the
\* list it returns
FilterMessages ==
    /\ Len(policy_calls) < MaxFilters
    /\ policy_calls' = Append(policy_calls,
                              [op |-> "filter_messages", items |-> policy_arg,
                               result |-> filter_messages(policy_arg)])
    /\ policy_arg' = Kept(policy_calls'[Len(policy_calls')])
    /\ UNCHANGED policyFrame

-----------------------------------------------------------------------------
(* PolicyEngine.filter_content *)

\* a dictionary that holds none of the fields a filter reads
PortfolioItem == [id |-> "p1", symbol |-> <<"S","O","L">>]

\* the texts a tool result holds for its data
BlobTexts == { Get(item, "text", <<>>) : item \in MessageItems } \ {NoText}

\* the values of a tool result's data: lists of dictionaries, lists of
\* strings, texts, None, a dictionary
DataValues ==
    { PyList(l) : l \in ItemLists }
      \cup { PyList(<<PortfolioItem>>), PyList(<<PortfolioItem, ItemById("m2")>>) }
      \cup { PyList(<<PyStr(t)>>) : t \in BlobTexts }
      \cup { PyStr(t) : t \in BlobTexts }
      \cup { PyNone, PyDict(PortfolioItem) }

\* the values of filter_content's content: tool results, dictionaries that
\* lack one of the keys of a tool result, and values that are no dictionary
Contents ==
    { PyDict([success |-> TRUE, data |-> d]) : d \in DataValues }
      \cup { PyDict([data |-> PyStr(t)]) : t \in BlobTexts }
      \cup { PyDict([success |-> TRUE]) }
      \cup { PyStr(t) : t \in BlobTexts }
      \cup { PyList(<<ItemById("m2")>>), PyNone }

\* the surfaces filter_content is called for
ContentSurfaces == {"GMAIL", "TELEGRAM"}

\* an element of the model's lists is a dict unless it carries another type
IsDict(x) == "type" \notin DOMAIN x

\* what filter_content did: the content it returns and the records it logged
Unfiltered(content) == [content |-> content, logged |-> <<>>]

\* the record _log_policy_violation writes
Violation(user_id, surface, patterns, content_preview) ==
    [user_id |-> user_id, surface |-> surface, patterns |-> patterns,
     content_preview |-> content_preview]

\* the three assignments to content after a filter, and the log of a block
\* (policy_engine.py:233-244, 248-259)
ListFiltered(d, kept, result, noun, surface, user_id) ==
    [content |->
        PyDict(Put(Put(Put(d, "data", PyList(kept)),
                       "filtered_count", result.blocked_count),
                   "blocked_patterns", result.blocked_patterns)),
     logged |->
        IF result.blocked_count > 0
        THEN <<Violation(user_id, surface, result.blocked_patterns,
                         <<"Blocked ", result.blocked_count, noun>>)>>
        ELSE <<>>]

EmailsFiltered(d, result, surface, user_id) ==
    ListFiltered(d, result.emails, result, " emails", surface, user_id)

MessagesFiltered(d, result, surface, user_id) ==
    ListFiltered(d, result.messages, result, " messages", surface, user_id)

\* a block that logs nothing
BlobScanned_NoLog(d, scan, surface, user_id) ==
    IF scan[1]
    THEN [content |->
             PyDict(Put(Put(Put(d, "success", FALSE),
                            "error", "Content blocked due to sensitive data"),
                        "blocked_patterns", scan[2])),
          logged |-> <<>>]
    ELSE Unfiltered(PyDict(d))

\* the branch of a single text (policy_engine.py:262-274), scan being what
\* is_sensitive(data) returned
BlobScanned(d, scan, surface, user_id) ==
    IF scan[1]
    THEN [content |->
             PyDict(Put(Put(Put(d, "success", FALSE),
                            "error", "Content blocked due to sensitive data"),
                        "blocked_patterns", scan[2])),
          logged |-> <<Violation(user_id, surface, scan[2],
                                 <<"Blocked sensitive content">>)>>]
    ELSE Unfiltered(PyDict(d))

\* the branch of a list (policy_engine.py:227-259)
ListBranch(d, data, surface, user_id) ==
    IF Truthy(PyList(data)) /\ IsDict(data[1])
    THEN IF "subject" \in DOMAIN data[1] \/ "body" \in DOMAIN data[1]
         THEN EmailsFiltered(d, filter_emails(data), surface, user_id)
         ELSE IF "text" \in DOMAIN data[1]
         THEN MessagesFiltered(d, filter_messages(data), surface, user_id)
         ELSE Unfiltered(PyDict(d))
    ELSE Unfiltered(PyDict(d))

\* PolicyEngine.filter_content(content, surface, user_id): content is changed
\* in place and returned
filter_content(content, surface, user_id) ==
    IF content.type = "dict"
         /\ "success" \in DOMAIN content.dict
         /\ "data" \in DOMAIN content.dict
    THEN IF content.dict.data.type = "list"
         THEN ListBranch(content.dict, content.dict.data.list,
                         surface, user_id)
         ELSE IF content.dict.data.type = "str"
         THEN BlobScanned(content.dict,
                          is_sensitive(content.dict.data.str),
                          surface, user_id)
         ELSE Unfiltered(content)
    ELSE Unfiltered(content)

\* the call returns: the caller's object is the returned one
FilterContentReturns(surface, user_id, done) ==
    /\ fc_calls' = Append(fc_calls,
                          [content |-> fc_content, surface |-> surface,
                           user_id |-> user_id, returned |-> done.content,
                           logged |-> Len(done.logged)])
    /\ fc_content' = done.content
    /\ violation_log' = violation_log \o done.logged

\* filter_content is called on the content the caller holds
FilterContent(surface) ==
    /\ Len(fc_calls) < MaxFilters
    /\ FilterContentReturns(surface, context.user_id,
                            filter_content(fc_content, surface, context.user_id))
    /\ UNCHANGED contentFrame

-----------------------------------------------------------------------------
(* OrdoAgent.process_query: the pipeline of the orchestrator *)

\* the stages, in the order of the pipeline when every permission is granted
FullOrder ==
    <<"parse_query", "check_permissions", "select_tools", "execute_tools",
      "filter_results", "aggregate_results", "generate_response", "DONE">>

\* the stages when check_permissions finds a permission missing
DeniedOrder == <<"parse_query", "check_permissions", "error_response", "DONE">>

\* the surfaces the requests of the model can require, in a fixed order
AgentSurfaces == <<"READ_GMAIL", "READ_SOCIAL_X", "READ_WALLET">>

\* the tools select_tools can pick
Tool_search_email_threads == <<"s","e","a","r","c","h","_","e","m","a","i","l","_","t","h","r","e","a","d","s">>
Tool_get_x_mentions == <<"g","e","t","_","x","_","m","e","n","t","i","o","n","s">>
Tool_get_wallet_portfolio == <<"g","e","t","_","w","a","l","l","e","t","_","p","o","r","t","f","o","l","i","o">>

AgentTools ==
    {Tool_search_email_threads, Tool_get_x_mentions, Tool_get_wallet_portfolio}

\* the sets of at most MaxSurfaces surfaces a request can require
SurfaceSets ==
    { R \in SUBSET { AgentSurfaces[i] : i \in 1..Len(AgentSurfaces) } :
        Cardinality(R) <= MaxSurfaces }

\* the permissions of the callers of the pipeline
AgentPermissionMaps ==
    { p \in PermissionMaps :
        DOMAIN p \subseteq { AgentSurfaces[i] : i \in 1..Len(AgentSurfaces) } }

\* the queries, each with the surfaces the keyword classifier finds in it
Queries ==
    { [text |-> "What is my wallet balance?", keywords |-> {"READ_WALLET"}],
      [text |-> "Show me my recent X mentions", keywords |-> {"READ_SOCIAL_X"}],
      [text |-> "Check my wallet balance and search my emails for hackathon invites",
       keywords |-> {"READ_WALLET", "READ_GMAIL"}],
      [text |-> "hello", keywords |-> {}] }

\* the elements of S among those of list, in the order of list
InOrder(S, list) == SelectSeq(list, LAMBDA x : x \in S)

\* entries of errors
PermissionDenied(surface) == [kind |-> "PermissionDenied", surface |-> surface]
ToolExecutionError(tool, cause) ==
    [kind |-> "ToolExecutionError", tool |-> tool, cause |-> cause]
ProviderUnavailable == [kind |-> "ProviderUnavailable"]

\* what a tool backend can fail with
ToolCauses == {"TimeoutError"}

\* what the backend of a tool can return as data: lists of items, some of
\* them sensitive
BackendData(tool) ==
    IF get_surface_from_tool(tool) = "READ_GMAIL"
    THEN { <<ItemById("e1")>>, <<ItemById("e2"), ItemById("e1")>> }
    ELSE { <<ItemById("m1")>>, <<ItemById("m2"), ItemById("m1")>> }

\* a check that takes an absent surface for a granted one
MissingSurfaces_FalseOnly(required, ctx) ==
    { S \in required : ~GetOrTrue(ctx.permissions, S) }

\* check_permissions: the required surfaces that are false or absent in
\* context.permissions
MissingSurfaces(required, ctx) ==
    { S \in required : ~GetOrFalse(ctx.permissions, S) }

\* select_tools: the tools of a granted required surface
ToolsFor(surface) == { t \in AgentTools : get_surface_from_tool(t) = surface }

\* WorkflowState at the start of a request
NewWorkflowState(query) ==
    [query |-> query, required |-> {}, selected |-> {}, results |-> <<>>,
     errors |-> <<>>, blocked_count |-> 0, blocked_patterns |-> {},
     aggregated |-> {}, response |-> <<>>, sources |-> {}]

NoWorkflowState == NewWorkflowState([text |-> "", keywords |-> {}])

NoOutput == [status |-> "none"]

\* the record process_query returns
Output(state) ==
    [status |-> "returned", response |-> state.response,
     sources |-> state.sources, errors |-> state.errors]

\* the pipeline moves on to stage s
Enter(s) ==
    /\ agent_stage' = s
    /\ agent_visited' = Append(agent_visited, s)

\* process_query(query, context) is called: parse_query starts
ProcessQuery(query) ==
    /\ agent_stage = "idle"
    /\ Enter("parse_query")
    /\ agent_state' = NewWorkflowState(query)
    /\ UNCHANGED <<agent_calls, agent_output>>
    /\ UNCHANGED agentFrame

\* parse_query: the gateway answered with the surfaces the query requires
ParseQueryAnswered(required) ==
    /\ agent_stage = "parse_query"
    /\ primary_llm \/ fallback_llm
    /\ agent_state' = [agent_state EXCEPT !.required = required]
    /\ Enter("check_permissions")
    /\ UNCHANGED <<agent_calls, agent_output>>
    /\ UNCHANGED agentFrame

\* parse_query: the gateway raised (no provider, or both failed); the
\* keyword classifier decides the surfaces
ParseQueryHeuristic ==
    /\ agent_stage = "parse_query"
    /\ agent_state' = [agent_state EXCEPT !.required = agent_state.query.keywords]
    /\ Enter("check_permissions")
    /\ UNCHANGED <<agent_calls, agent_output>>
    /\ UNCHANGED agentFrame

\* check_permissions: error_response if a required surface is missing,
\* with one entry of errors for each, select_tools otherwise
CheckPermissions ==
    /\ agent_stage = "check_permissions"
    /\ LET missing == MissingSurfaces(agent_state.required, context)
       IN  IF missing # {}
           THEN /\ agent_state' =
                     [agent_state EXCEPT
                        !.errors = @ \o [i \in 1..Cardinality(missing) |->
                              PermissionDenied(InOrder(missing, AgentSurfaces)[i])]]
                /\ Enter("error_response")
           ELSE /\ agent_state' = agent_state
                /\ Enter("select_tools")
    /\ UNCHANGED <<agent_calls, agent_output>>
    /\ UNCHANGED agentFrame

\* error_response: the response explains each missing permission; DONE
ErrorResponse ==
    /\ agent_stage = "error_response"
    /\ LET missing == MissingSurfaces(agent_state.required, context)
           state == [agent_state EXCEPT
                       !.response = <<"Missing permissions: ">>
                                      \o InOrder(missing, AgentSurfaces)]
       IN  /\ agent_state' = state
           /\ agent_output' = Output(state)
    /\ Enter("DONE")
    /\ UNCHANGED agent_calls
    /\ UNCHANGED agentFrame

\* select_tools that goes on to filter_results
SelectTools_SkipsExecute ==
    /\ agent_stage = "select_tools"
    /\ agent_state' = [agent_state EXCEPT
                         !.selected = UNION { ToolsFor(S) : S \in agent_state.required }]
    /\ Enter("filter_results")
    /\ UNCHANGED <<agent_calls, agent_output>>
    /\ UNCHANGED agentFrame

\* select_tools: the tools of every required surface
SelectTools ==
    /\ agent_stage = "select_tools"
    /\ agent_state' = [agent_state EXCEPT
                         !.selected = UNION { ToolsFor(S) : S \in agent_state.required }]
    /\ Enter("execute_tools")
    /\ UNCHANGED <<agent_calls, agent_output>>
    /\ UNCHANGED agentFrame

\* execute_tools: every selected tool is dispatched at once
DispatchTools ==
    /\ agent_stage = "execute_tools"
    /\ ~agent_calls.dispatched
    /\ agent_calls' = [dispatched |-> TRUE,
                       status |-> [t \in agent_state.selected |-> "pending"]]
    /\ UNCHANGED <<agent_stage, agent_visited, agent_state, agent_output>>
    /\ UNCHANGED agentFrame

\* the call of tool t comes back from execute_tool: with PermissionError if
\* the context lacks the tool's surface, with the backend's data otherwise
ToolCallReturns(t, data) ==
    /\ agent_stage = "execute_tools"
    /\ t \in DOMAIN agent_calls.status
    /\ agent_calls.status[t] = "pending"
    /\ IF PermissionMissing(get_surface_from_tool(t), context)
       THEN /\ agent_calls' = [agent_calls EXCEPT !.status[t] = "failed"]
            /\ agent_state' =
                 [agent_state EXCEPT
                    !.errors = Append(@, ToolExecutionError(t, "PermissionError"))]
       ELSE /\ agent_calls' = [agent_calls EXCEPT !.status[t] = "returned"]
            /\ agent_state' =
                 [agent_state EXCEPT
                    !.results = Append(@, [tool |-> t, success |-> TRUE,
                                           data |-> data])]
    /\ UNCHANGED <<agent_stage, agent_visited, agent_output>>
    /\ UNCHANGED agentFrame

\* a failing call that takes the pending calls down with it
ToolCallFails_CancelsSiblings(t, cause) ==
    /\ agent_stage = "execute_tools"
    /\ t \in DOMAIN agent_calls.status
    /\ agent_calls.status[t] = "pending"
    /\ agent_calls' =
         [agent_calls EXCEPT
            !.status = [u \in DOMAIN agent_calls.status |->
                          IF u = t THEN "failed"
                          ELSE IF agent_calls.status[u] = "pending"
                               THEN "cancelled" ELSE agent_calls.status[u]]]
    /\ agent_state' = [agent_state EXCEPT
                         !.errors = Append(@, ToolExecutionError(t, cause))]
    /\ UNCHANGED <<agent_stage, agent_visited, agent_output>>
    /\ UNCHANGED agentFrame

\* the call of tool t fails in its backend (error or timeout): the failure
\* is recorded in errors, the other calls go on
ToolCallFails(t, cause) ==
    /\ agent_stage = "execute_tools"
    /\ t \in DOMAIN agent_calls.status
    /\ agent_calls.status[t] = "pending"
    /\ agent_calls' = [agent_calls EXCEPT !.status[t] = "failed"]
    /\ agent_state' = [agent_state EXCEPT
                         !.errors = Append(@, ToolExecutionError(t, cause))]
    /\ UNCHANGED <<agent_stage, agent_visited, agent_output>>
    /\ UNCHANGED agentFrame

\* an execute_tools that goes on while calls are outstanding
ExecuteToolsDone_NoFanIn ==
    /\ agent_stage = "execute_tools"
    /\ agent_calls.dispatched
    /\ Enter("filter_results")
    /\ UNCHANGED <<agent_state, agent_calls, agent_output>>
    /\ UNCHANGED agentFrame

\* an execute_tools that waits until every dispatched call has returned a
\* result
ExecuteToolsDone_NeedsEverySuccess ==
    /\ agent_stage = "execute_tools"
    /\ agent_calls.dispatched
    /\ \A t \in DOMAIN agent_calls.status : agent_calls.status[t] = "returned"
    /\ Enter("filter_results")
    /\ UNCHANGED <<agent_state, agent_calls, agent_output>>
    /\ UNCHANGED agentFrame

\* execute_tools is over once every dispatched call has come back
ExecuteToolsDone ==
    /\ agent_stage = "execute_tools"
    /\ agent_calls.dispatched
    /\ \A t \in DOMAIN agent_calls.status : agent_calls.status[t] # "pending"
    /\ Enter("filter_results")
    /\ UNCHANGED <<agent_state, agent_calls, agent_output>>
    /\ UNCHANGED agentFrame

\* what filter_emails returned, under the keys filter_results reads
EmailsOutcome(f) ==
    [kept |-> f.emails, blocked_count |-> f.blocked_count,
     blocked_patterns |-> f.blocked_patterns]

\* what filter_messages returned, under the keys filter_results reads
MessagesOutcome(f) ==
    [kept |-> f.messages, blocked_count |-> f.blocked_count,
     blocked_patterns |-> f.blocked_patterns]

\* what the Policy Engine makes of the data of one result
FilteredData(r) ==
    IF get_surface_from_tool(r.tool) = "READ_GMAIL"
    THEN EmailsOutcome(filter_emails(r.data))
    ELSE MessagesOutcome(filter_messages(r.data))

\* a filter_results that counts what the Policy Engine blocks and leaves the
\* data of the result as it came
FilterResult_KeepsData(state, r, f) ==
    [state EXCEPT
       !.results = Append(@, r),
       !.blocked_count = @ + f.blocked_count,
       !.blocked_patterns = @ \cup f.blocked_patterns]

\* filter_results for one result: its data is replaced by what the Policy
\* Engine keeps of it; counts and patterns are accumulated
FilterResult(state, r, f) ==
    [state EXCEPT
       !.results = Append(@, [r EXCEPT !.data = f.kept]),
       !.blocked_count = @ + f.blocked_count,
       !.blocked_patterns = @ \cup f.blocked_patterns]

RECURSIVE FilterResultsLoop(_, _, _)
\* filter_results, from result i on
FilterResultsLoop(results, i, state) ==
    IF i > Len(results)
    THEN state
    ELSE FilterResultsLoop(results, i + 1,
                           FilterResult(state, results[i],
                                        FilteredData(results[i])))

\* filter_results
FilterResults ==
    /\ agent_stage = "filter_results"
    /\ agent_state' = FilterResultsLoop(agent_state.results, 1,
                                        [agent_state EXCEPT !.results = <<>>])
    /\ Enter("aggregate_results")
    /\ UNCHANGED <<agent_calls, agent_output>>
    /\ UNCHANGED agentFrame

\* the source tag of an item of a result
SourceTag(r, item) == [surface |-> get_surface_from_tool(r.tool), id |-> item.id]

\* an aggregate_results with one slot, which the result that came back last
\* ends up in
AggregateResults_LastWins ==
    /\ agent_stage = "aggregate_results"
    /\ LET results == agent_state.results
       IN  agent_state' =
             [agent_state EXCEPT
                !.aggregated =
                    { [surface |-> get_surface_from_tool(results[i].tool),
                       tool |-> results[i].tool, items |-> results[i].data] :
                      i \in {Len(results)} \ {0} },
                !.sources =
                    UNION { { SourceTag(results[i], results[i].data[j]) :
                                j \in 1..Len(results[i].data) } :
                            i \in {Len(results)} \ {0} }]
    /\ Enter("generate_response")
    /\ UNCHANGED <<agent_calls, agent_output>>
    /\ UNCHANGED agentFrame

\* aggregate_results: one entry for each result, keyed by its surface, and
\* the source tags of the items
AggregateResults ==
    /\ agent_stage = "aggregate_results"
    /\ LET results == agent_state.results
       IN  agent_state' =
             [agent_state EXCEPT
                !.aggregated =
                    { [surface |-> get_surface_from_tool(results[i].tool),
                       tool |-> results[i].tool, items |-> results[i].data] :
                      i \in 1..Len(results) },
                !.sources =
                    UNION { { SourceTag(results[i], results[i].data[j]) :
                                j \in 1..Len(results[i].data) } :
                            i \in 1..Len(results) }]
    /\ Enter("generate_response")
    /\ UNCHANGED <<agent_calls, agent_output>>
    /\ UNCHANGED agentFrame

\* generate_response: the gateway answered; DONE
GenerateResponseAnswered(content) ==
    /\ agent_stage = "generate_response"
    /\ primary_llm \/ fallback_llm
    /\ LET state == [agent_state EXCEPT !.response = <<content>>]
       IN  /\ agent_state' = state
           /\ agent_output' = Output(state)
    /\ Enter("DONE")
    /\ UNCHANGED agent_calls
    /\ UNCHANGED agentFrame

\* a generate_response that lets the gateway's RuntimeError through
GenerateResponseFailed_Raises ==
    /\ agent_stage = "generate_response"
    /\ agent_output' = [status |-> "raised", error |-> "RuntimeError"]
    /\ Enter("DONE")
    /\ UNCHANGED <<agent_state, agent_calls>>
    /\ UNCHANGED agentFrame

\* generate_response: the gateway raised (no provider, or both failed): the
\* failure is recorded in errors and the response apologises; DONE
GenerateResponseFailed ==
    /\ agent_stage = "generate_response"
    /\ LET state == [agent_state EXCEPT
                       !.errors = Append(@, ProviderUnavailable),
                       !.response = <<"I'm currently unavailable, please try again">>]
       IN  /\ agent_state' = state
           /\ agent_output' = Output(state)
    /\ Enter("DONE")
    /\ UNCHANGED agent_calls
    /\ UNCHANGED agentFrame

-----------------------------------------------------------------------------
(* system_prompt.get_system_prompt *)

\* A prompt is the sequence of the strings it was put together from.
\* ORDO_SYSTEM_PROMPT (system_prompt.py:15-223) is one string, which
\* get_system_prompt passes on unread; it is named here by its first line.
ORDO_SYSTEM_PROMPT ==
    <<"You are Ordo, a privacy-first AI assistant for Solana Seeker users. [...]">>

\* the values of custom_instructions: Optional[str]
CustomInstructions ==
    { PyNone, PyStr(<<>>), PyStr(<<"Be extra helpful with DeFi queries.">>),
      PyStr(<<"Focus on security.">>) }

\* the surfaces a caller lists
ListedSurfaces == {"GMAIL", "WALLET", "X"}

\* the values of available_surfaces: Optional[List[str]]
SurfaceLists ==
    {PyNone} \cup
    { PyList(l) : l \in UNION { [1..n -> ListedSurfaces] : n \in 0..MaxListed } }

\* the strings `for surface in available_surfaces` adds: f"- {surface}\n"
SurfaceLines(available_surfaces) ==
    [i \in 1..(3 * Len(available_surfaces)) |->
        CASE i % 3 = 1 -> "- "
          [] i % 3 = 2 -> available_surfaces[(i + 1) \div 3]
          [] OTHER -> "\n"]

\* the section of available surfaces (system_prompt.py:245-249)
surface_context(available_surfaces) ==
    <<"\n\n## AVAILABLE SURFACES\n\n",
      "The user has granted you access to the following surfaces:\n">>
        \o SurfaceLines(available_surfaces)
        \o <<"\nOnly use tools and access data from these surfaces.\n">>

\* f"\n\n## ADDITIONAL INSTRUCTIONS\n\n{custom_instructions}\n"
AdditionalInstructions(custom_instructions) ==
    <<"\n\n## ADDITIONAL INSTRUCTIONS\n\n">> \o custom_instructions \o <<"\n">>

\* a get_system_prompt that adds the custom instructions before the surfaces
get_system_prompt_CustomFirst(custom_instructions, available_surfaces) ==
    LET with_custom ==
            IF Truthy(custom_instructions)
            THEN ORDO_SYSTEM_PROMPT
                   \o AdditionalInstructions(custom_instructions.str)
            ELSE ORDO_SYSTEM_PROMPT
    IN  IF Truthy(available_surfaces)
        THEN with_custom \o surface_context(available_surfaces.list)
        ELSE with_custom

\* get_system_prompt(custom_instructions, available_surfaces)
get_system_prompt(custom_instructions, available_surfaces) ==
    LET with_surfaces ==
            IF Truthy(available_surfaces)
            THEN ORDO_SYSTEM_PROMPT \o surface_context(available_surfaces.list)
            ELSE ORDO_SYSTEM_PROMPT
    IN  IF Truthy(custom_instructions)
        THEN with_surfaces \o AdditionalInstructions(custom_instructions.str)
        ELSE with_surfaces

NoPrompt == [returned |-> FALSE, text |-> <<>>]

\* get_system_prompt is called with the caller's arguments
GetSystemPrompt ==
    /\ ~prompt.returned
    /\ prompt' = [returned |-> TRUE,
                  text |-> get_system_prompt(prompt_args.custom_instructions,
                                             prompt_args.available_surfaces)]
    /\ UNCHANGED prompt_args
    /\ UNCHANGED promptFrame

-----------------------------------------------------------------------------
(* system_prompt.get_confirmation_prompt *)

\* action_details is a dict: its items in insertion order, the keys distinct.
\* A prompt is the sequence of its lines.

\* a details map holds at most this many items
MaxDetails == 1

DetailKeys == {"content", "to", "test"}

DetailValues == { PyStr("hi"), PyNone }

DetailItems == { [key |-> k, val |-> v] : k \in DetailKeys, v \in DetailValues }

DetailMaps ==
    { d \in UNION { [1..n -> DetailItems] : n \in 0..MaxDetails } :
        \A i, j \in 1..Len(d) : d[i].key = d[j].key => i = j }

\* the eight write operations with a formatter, and two without
WriteActionTypes ==
    {"send_email", "post_tweet", "send_telegram", "sign_transaction",
     "swap_tokens", "stake_sol", "buy_nft", "sell_nft"}

ActionTypes == WriteActionTypes \cup {"unknown_action", ""}

\* details.get(key, default)
DetailsGet(details, key, default) ==
    IF \E i \in 1..Len(details) : details[i].key = key
    THEN details[CHOOSE i \in 1..Len(details) : details[i].key = key].val
    ELSE default

\* str(v), as an f-string formats v
PyFormat(v) == IF v.type = "str" THEN v.str ELSE "None"

\* repr(v)
PyRepr(v) == IF v.type = "str" THEN "'" \o v.str \o "'" ELSE "None"

\* str(n) of a non-negative int
RECURSIVE Decimal(_)
Decimal(n) ==
    IF n < 10
    THEN <<"0","1","2","3","4","5","6","7","8","9">>[n + 1]
    ELSE Decimal(n \div 10) \o Decimal(n % 10)

\* repr of the items of a dict from the i-th on
RECURSIVE ItemsRepr(_, _)
ItemsRepr(details, i) ==
    IF i > Len(details) THEN ""
    ELSE "'" \o details[i].key \o "': " \o PyRepr(details[i].val)
           \o (IF i < Len(details) THEN ", " ELSE "")
           \o ItemsRepr(details, i + 1)

\* repr(details)
DictRepr(details) == "{" \o ItemsRepr(details, 1) \o "}"

\* details.get(key, 'N/A'), formatted
Field(details, key) == PyFormat(DetailsGet(details, key, PyStr("N/A")))

\* the function returned the prompt `lines`
ReturnedPrompt(lines) == [status |-> "returned", lines |-> lines]

\* the function raised
RaisedError(type) == [status |-> "raised", error |-> type]

_format_email_confirmation(details) ==
    ReturnedPrompt(
      <<"Ready to send email:",
        "",
        "To: " \o Field(details, "to"),
        "Subject: " \o Field(details, "subject"),
        "Body Preview: " \o Field(details, "body_preview"),
        "",
        "Do you want to send this email?">>)

\* len(details.get('content', '')) is a TypeError unless the value has a length
_format_tweet_confirmation(details) ==
    LET content == DetailsGet(details, "content", PyStr(""))
    IN  IF content.type # "str"
        THEN RaisedError("TypeError")
        ELSE ReturnedPrompt(
               <<"Ready to post tweet:",
                 "",
                 "Content: " \o Field(details, "content"),
                 "Character Count: " \o Decimal(Len(content.str)),
                 "",
                 "Do you want to post this tweet?">>)

_format_telegram_confirmation(details) ==
    ReturnedPrompt(
      <<"Ready to send Telegram message:",
        "",
        "To: " \o Field(details, "chat"),
        "Message: " \o Field(details, "message"),
        "",
        "Do you want to send this message?">>)

_format_transaction_confirmation(details) ==
    LET token == PyFormat(DetailsGet(details, "token", PyStr("SOL")))
    IN  ReturnedPrompt(
          <<"Ready to sign transaction:",
            "",
            "Recipient: " \o Field(details, "recipient"),
            "Amount: " \o Field(details, "amount") \o " " \o token,
            "Estimated Fee: " \o Field(details, "fee") \o " SOL",
            "Total: " \o Field(details, "total") \o " " \o token,
            "",
            "Do you want to proceed? You'll need to confirm with biometric authentication.">>)

_format_swap_confirmation(details) ==
    ReturnedPrompt(
      <<"Ready to swap tokens:",
        "",
        "From: " \o Field(details, "from_amount") \o " " \o Field(details, "from_token"),
        "To: " \o Field(details, "to_amount") \o " " \o Field(details, "to_token"),
        "Rate: 1 " \o Field(details, "from_token") \o " = " \o Field(details, "rate")
            \o " " \o Field(details, "to_token"),
        "Slippage: " \o Field(details, "slippage") \o "%",
        "Estimated Fee: " \o Field(details, "fee") \o " SOL",
        "",
        "Do you want to proceed with this swap?">>)

_format_stake_confirmation(details) ==
    ReturnedPrompt(
      <<"Ready to stake SOL:",
        "",
        "Amount: " \o Field(details, "amount") \o " SOL",
        "Validator: " \o Field(details, "validator"),
        "APY: " \o Field(details, "apy") \o "%",
        "Estimated Fee: " \o Field(details, "fee") \o " SOL",
        "",
        "Do you want to proceed with staking?">>)

_format_nft_buy_confirmation(details) ==
    ReturnedPrompt(
      <<"Ready to buy NFT:",
        "",
        "Collection: " \o Field(details, "collection"),
        "NFT: " \o Field(details, "name"),
        "Price: " \o Field(details, "price") \o " SOL",
        "Marketplace: " \o Field(details, "marketplace"),
        "Estimated Fee: " \o Field(details, "fee") \o " SOL",
        "Total: " \o Field(details, "total") \o " SOL",
        "",
        "Do you want to proceed with this purchase?">>)

_format_nft_sell_confirmation(details) ==
    ReturnedPrompt(
      <<"Ready to list NFT for sale:",
        "",
        "Collection: " \o Field(details, "collection"),
        "NFT: " \o Field(details, "name"),
        "List Price: " \o Field(details, "price") \o " SOL",
        "Marketplace: " \o Field(details, "marketplace"),
        "Marketplace Fee: " \o Field(details, "marketplace_fee") \o "%",
        "",
        "Do you want to list this NFT?">>)

\* prompts.get(action_type), then the formatter or the generic prompt
get_confirmation_prompt(action_type, action_details) ==
    CASE action_type = "send_email" -> _format_email_confirmation(action_details)
      [] action_type = "post_tweet" -> _format_tweet_confirmation(action_details)
      [] action_type = "send_telegram" -> _format_telegram_confirmation(action_details)
      [] action_type = "sign_transaction" ->
            _format_transaction_confirmation(action_details)
      [] action_type = "swap_tokens" -> _format_swap_confirmation(action_details)
      [] action_type = "stake_sol" -> _format_stake_confirmation(action_details)
      [] action_type = "buy_nft" -> _format_nft_buy_confirmation(action_details)
      [] action_type = "sell_nft" -> _format_nft_sell_confirmation(action_details)
      [] OTHER ->
            ReturnedPrompt(<<"Confirm action: " \o action_type,
                             "Details: " \o DictRepr(action_details)>>)

NoConfirmation == [status |-> "none"]

\* get_confirmation_prompt(action_type, action_details) is called
GetConfirmationPrompt ==
    /\ confirm_out = NoConfirmation
    /\ confirm_out' = get_confirmation_prompt(confirm_args.action_type,
                                              confirm_args.action_details)
    /\ UNCHANGED confirm_args
    /\ UNCHANGED confirmFrame

-----------------------------------------------------------------------------
(* The resource handlers of the MCP servers *)

\* A tool result is a dict or a list of dicts, a dict being a function from
\* its keys; a blob is the sequence of its lines.

\* rows in a list a backend answers with: at most MaxRows
MaxRows == 1

ResourceURIs ==
    {"email://inbox", "wallet://portfolio", "wallet://transactions",
     "social://x/dms", "social://telegram/messages"}

\* a wallet address: its first eight characters and what follows them
Addresses ==
    { [first8 |-> "7xKXtg2C", rest |-> "W87d97TXJSDpbD5jBkheTqA83TZRuJosgAsU"],
      [first8 |-> "short", rest |-> ""] }

\* what the backends can fail with, as str(e) and as a status code
BackendFailures == {"timed out"}
StatusCodes == {"401"}

\* the lists of at most MaxRows rows out of `rows`
RowLists(rows) == UNION { [1..n -> rows] : n \in 0..MaxRows }

\* search_email_threads, email.py:96: the list of the threads found
Threads ==
    { [id |-> "t1", subject |-> "Hackathon invite",
       participants |-> <<"alice@example.com">>, messageCount |-> "2",
       lastMessageDate |-> "Mon, 26 Jan 2026", snippet |-> "You are invited"],
      [id |-> "t2", subject |-> "No Subject",
       participants |-> <<"Unknown">>, messageCount |-> "1",
       lastMessageDate |-> "", snippet |-> ""] }

\* search_email_threads, email.py:103-114: the list it returns on a failure
search_email_threads_errors ==
    { <<[error |-> "Gmail API client not installed. Install with: pip install google-api-python-client",
         id |-> "", subject |-> ""]>> }
    \cup
    { <<[error |-> "Failed to search emails: " \o e, id |-> "", subject |-> ""]>> :
        e \in BackendFailures }

search_email_threads_results == RowLists(Threads) \cup search_email_threads_errors

\* get_wallet_portfolio, wallet.py:91-99 and 138-144: tokens and NFTs
Tokens ==
    { [mint |-> "So11111111111111111111111111111111111111112", symbol |-> "SOL",
       name |-> "Solana", balance |-> "1.5", decimals |-> "9",
       valueUsd |-> 15000, priceChange24h |-> "0.0"] }

Nfts ==
    { [mint |-> "nft_1", name |-> "Okay Bear #1234", collection |-> "",
       imageUrl |-> "", floorPriceSol |-> "None"] }

\* get_wallet_portfolio(address, ...): wallet.py:150-156 on success,
\* 158-173 on a failure; amounts in USD are counted in cents
get_wallet_portfolio_results(address) ==
    { [address |-> address, totalValueUsd |-> 15000 * Len(tokens),
       tokens |-> tokens, nfts |-> nfts, lastUpdated |-> "2026-01-29T00:00:00"] :
        tokens \in RowLists(Tokens), nfts \in RowLists(Nfts) }
    \cup
    { [error |-> text, address |-> address, totalValueUsd |-> 0,
       tokens |-> <<>>, nfts |-> <<>>] :
        text \in { "Helius API error: " \o c : c \in StatusCodes }
                 \cup { "Failed to fetch portfolio: " \o e : e \in BackendFailures } }

\* get_transaction_history, wallet.py:236-245: a parsed transaction
Transactions ==
    { [signature |-> "sig_1", timestamp |-> "2026-01-29T00:00:00",
       type |-> "TRANSFER", source |-> "SYSTEM_PROGRAM", fee |-> "5000",
       nativeTransfers |-> <<>>, tokenTransfers |-> <<>>,
       description |-> "transferred 1 SOL"] }

\* get_transaction_history, wallet.py:249-260: the list it returns on a failure
get_transaction_history_errors ==
    { <<[error |-> text, signature |-> "", timestamp |-> "2026-01-29T00:00:00"]>> :
        text \in { "Helius API error: " \o c : c \in StatusCodes }
                 \cup { "Failed to fetch transactions: " \o e : e \in BackendFailures } }

get_transaction_history_results ==
    RowLists(Transactions) \cup get_transaction_history_errors

\* get_x_dms, social.py:48-55: the list it returns
get_x_dms_results ==
    { <<[id |-> "dm_1", conversationId |-> "conv_1", senderId |-> "user_123",
         senderUsername |-> "mockuser", text |-> "Mock DM message",
         timestamp |-> "2026-01-29T00:00:00Z"]>> }

\* get_telegram_messages, social.py:141-148: the list it returns
get_telegram_messages_results ==
    { <<[id |-> "tg_msg_1", chatId |-> "chat_123", fromId |-> "user_789",
         fromUsername |-> "telegramuser", text |-> "Mock Telegram message",
         timestamp |-> "2026-01-29T00:00:00Z"]>> }

\* what the tool a handler awaits can return
ToolResults(uri, address) ==
    CASE uri = "email://inbox" -> search_email_threads_results
      [] uri = "wallet://portfolio" -> get_wallet_portfolio_results(address)
      [] uri = "wallet://transactions" -> get_transaction_history_results
      [] uri = "social://x/dms" -> get_x_dms_results
      [] uri = "social://telegram/messages" -> get_telegram_messages_results

\* the handler returned the blob `lines`
ReturnedBlob(lines) == [status |-> "returned", lines |-> lines]

\* d[key] of a dict without the key
KeyError(key) == [status |-> "raised", error |-> "KeyError", key |-> key]

\* the first of `keys` that row lacks, "" if it has them all
RECURSIVE MissingKey(_, _)
MissingKey(row, keys) ==
    IF keys = <<>> THEN ""
    ELSE IF keys[1] \notin DOMAIN row THEN keys[1]
    ELSE MissingKey(row, Tail(keys))

\* formatted = header; for row in rows: formatted += Line(row), where Line
\* reads row[k] for the keys k in order
FormatRows(header, rows, keys, Line(_)) ==
    LET bad == { i \in 1..Len(rows) : MissingKey(rows[i], keys) # "" }
    IN  IF bad = {}
        THEN ReturnedBlob(header \o [i \in 1..Len(rows) |-> Line(rows[i])])
        ELSE KeyError(MissingKey(rows[CHOOSE i \in bad : \A j \in bad : i <= j],
                                 keys))

\* f"{cents / 100:.2f}"
Fixed2(cents) ==
    Decimal(cents \div 100) \o "." \o Decimal((cents % 100) \div 10)
        \o Decimal(cents % 10)

\* email.py:275-281
InboxLine(thread) ==
    "- " \o thread["subject"] \o " from " \o thread["participants"][1]

get_inbox(threads) ==
    FormatRows(<<"Recent Emails:", "">>, threads, <<"subject", "participants">>,
               InboxLine)

\* wallet.py:384-395
TokenLine(token) ==
    "- " \o token["symbol"] \o ": " \o token["balance"]
         \o " ($" \o Fixed2(token["valueUsd"]) \o ")"

NftLine(nft) == "- " \o nft["name"]

get_portfolio_resource(address, portfolio) ==
    LET header == <<"Wallet Portfolio (" \o address.first8 \o "...):", "">>
        total == MissingKey(portfolio, <<"totalValueUsd", "tokens">>)
        tokens == FormatRows(<<"Tokens:">>, portfolio["tokens"],
                             <<"symbol", "balance", "valueUsd">>, TokenLine)
        nfts == FormatRows(<<"", "NFTs:">>, portfolio["nfts"], <<"name">>, NftLine)
    IN  IF total # "" THEN KeyError(total)
        ELSE IF tokens.status = "raised" THEN tokens
        ELSE IF "nfts" \notin DOMAIN portfolio THEN KeyError("nfts")
        ELSE IF portfolio["nfts"] = <<>>
             THEN ReturnedBlob(header
                    \o <<"Total Value: $" \o Fixed2(portfolio["totalValueUsd"]), "">>
                    \o tokens.lines)
        ELSE IF nfts.status = "raised" THEN nfts
        ELSE ReturnedBlob(header
               \o <<"Total Value: $" \o Fixed2(portfolio["totalValueUsd"]), "">>
               \o tokens.lines \o nfts.lines)

\* wallet.py:415-421
TransactionLine(tx) ==
    "- " \o tx["type"] \o ": " \o tx["description"] \o " (" \o tx["timestamp"] \o ")"

get_transactions_resource(address, transactions) ==
    FormatRows(<<"Recent Transactions (" \o address.first8 \o "...):", "">>,
               transactions, <<"type", "description", "timestamp">>,
               TransactionLine)

\* social.py:193-199
DmLine(dm) == "- @" \o dm["senderUsername"] \o ": " \o dm["text"]

get_x_dms_resource(dms) ==
    FormatRows(<<"Recent X DMs:", "">>, dms, <<"senderUsername", "text">>, DmLine)

\* social.py:214-220: msg.get('fromUsername', 'unknown'), msg['text']
TelegramLine(msg) ==
    "- @" \o (IF "fromUsername" \in DOMAIN msg THEN msg["fromUsername"] ELSE "unknown")
          \o ": " \o msg["text"]

get_telegram_messages_resource(messages) ==
    FormatRows(<<"Recent Telegram Messages:", "">>, messages, <<"text">>,
               TelegramLine)

\* what the handler of uri makes of what its tool returned
HandlerOutcome(uri, address, result) ==
    CASE uri = "email://inbox" -> get_inbox(result)
      [] uri = "wallet://portfolio" -> get_portfolio_resource(address, result)
      [] uri = "wallet://transactions" -> get_transactions_resource(address, result)
      [] uri = "social://x/dms" -> get_x_dms_resource(result)
      [] uri = "social://telegram/messages" -> get_telegram_messages_resource(result)

NoRead == [uri |-> "none"]

\* the resource uri is read: its handler calls its tool and awaits it
ReadResource(uri, address) ==
    /\ resource_pending = NoRead
    /\ resource_pending' = [uri |-> uri, address |-> address]
    /\ UNCHANGED resource_last
    /\ UNCHANGED resourceFrame

\* the tool returns `result`, a result or an error record: the handler
\* formats it and returns the blob, or raises on the way
ToolAnswersHandler(result) ==
    /\ resource_last' =
         [uri |-> resource_pending.uri,
          failed |-> IF resource_pending.uri = "wallet://portfolio"
                     THEN "error" \in DOMAIN result
                     ELSE \E i \in 1..Len(result) : "error" \in DOMAIN result[i],
          outcome |-> HandlerOutcome(resource_pending.uri,
                                     resource_pending.address, result)]
    /\ resource_pending' = NoRead
    /\ UNCHANGED resourceFrame

\* no call of get_confirmation_prompt made, with its arguments at hand
ConfirmInit(action_type, action_details) ==
    /\ confirm_args = [action_type |-> action_type,
                       action_details |-> action_details]
    /\ confirm_out = NoConfirmation

\* no resource read yet
ResourceInit ==
    /\ resource_pending = NoRead
    /\ resource_last = NoRead

\* nothing of get_confirmation_prompt or the resource handlers in use
ExtraInit ==
    /\ ConfirmInit("", <<>>)
    /\ ResourceInit

-----------------------------------------------------------------------------
(* Specifications *)

\* no execute_tool call made yet, under the context of some caller
ToolInit(permissions) ==
    /\ context = OrdoContext(permissions)
    /\ request = NoRequest
    /\ tool_outcome = NoToolOutcome

\* LLMProvider.__init__ with the two API keys set (TRUE) or not
LLMInit(mistral_key, openrouter_key) ==
    /\ primary_llm = mistral_key
    /\ fallback_llm = openrouter_key
    /\ primary_count = 0
    /\ fallback_count = 0
    /\ pc = "idle"
    /\ call = NoCall
    /\ attempts = <<>>
    /\ replies = <<>>
    /\ outcome = NoOutcome

\* no request in the pipeline
AgentInit ==
    /\ agent_stage = "idle"
    /\ agent_visited = <<>>
    /\ agent_state = NoWorkflowState
    /\ agent_calls = [dispatched |-> FALSE, status |-> <<>>]
    /\ agent_output = NoOutput

\* a caller with the list `items` at hand and no filter called
PolicyInit(items) ==
    /\ policy_arg = items
    /\ policy_calls = NoFilterCalls

\* a caller that holds `content` and has not called filter_content
ContentInit(content) ==
    /\ fc_content = content
    /\ fc_calls = <<>>
    /\ violation_log = <<>>

\* a caller with an args map and no interceptor called
ChainInit(a) ==
    /\ tool_args = a
    /\ chain_call = NoChainCall
    /\ handler_seen = <<>>
    /\ tool_log = <<>>
    /\ chain_outcome = NoToolOutcome

\* no call answered, get_stats not called
NoneAnswered == [primary |-> 0, fallback |-> 0]

StatsInit ==
    /\ answered = NoneAnswered
    /\ stats = NoStats

\* no caller has called
TasksInit == tasks = [t \in Tasks |-> TaskIdle]

\* a caller about to call get_system_prompt with these arguments
PromptInit(custom_instructions, available_surfaces) ==
    /\ prompt_args = [custom_instructions |-> custom_instructions,
                      available_surfaces |-> available_surfaces]
    /\ prompt = NoPrompt

\* nothing of filter_content, the interceptors, the statistics, the
\* concurrent callers or get_system_prompt in use
RestInit ==
    /\ ContentInit(PyNone)
    /\ ChainInit([query |-> "hackathon invites"])
    /\ StatsInit
    /\ TasksInit
    /\ PromptInit(PyNone, PyNone)
    /\ ExtraInit

\* no ainvoke recorded; messages are those of the call to compare with
NoPlainRun(messages) ==
    [messages |-> messages, made |-> FALSE, replies |-> <<>>,
     outcome |-> NoOutcome]

InitTools ==
    /\ \E permissions \in PermissionMaps : ToolInit(permissions)
    /\ LLMInit(TRUE, TRUE)
    /\ plain_run = NoPlainRun(<<>>)
    /\ PolicyInit(<<>>)
    /\ AgentInit
    /\ RestInit

NextTools ==
    \E tool_name \in ToolNames, confirmation \in BOOLEAN :
        ExecuteTool(tool_name, confirmation)

\* calls of execute_tool, one after another
SpecTools == InitTools /\ [][NextTools]_vars

InitGateway ==
    /\ ToolInit(<<>>)
    /\ \E mistral_key \in BOOLEAN, openrouter_key \in BOOLEAN :
          LLMInit(mistral_key, openrouter_key)
    /\ plain_run = NoPlainRun(<<>>)
    /\ PolicyInit(<<>>)
    /\ AgentInit
    /\ RestInit

NextGateway ==
    \/ \E messages \in Conversations :
          Ainvoke(messages) /\ UNCHANGED <<plain_run, answered>>
    \/ \E messages \in Conversations, functions \in FunctionLists :
          AinvokeWithFunctions(messages, functions) /\ UNCHANGED <<plain_run, answered>>
    \/ \E content \in ReplyContents :
          PrimaryReturns(content) /\ UNCHANGED <<plain_run, answered>>
    \/ \E e \in Causes : PrimaryRaises(e) /\ UNCHANGED <<plain_run, answered>>
    \/ \E content \in ReplyContents :
          FunctionCallReturns(content) /\ UNCHANGED <<plain_run, answered>>
    \/ \E e \in Causes : FunctionCallRaises(e) /\ UNCHANGED <<plain_run, answered>>
    \/ \E content \in ReplyContents :
          FallbackReturns(content) /\ UNCHANGED <<plain_run, answered>>
    \/ \E e \in Causes : FallbackRaises(e) /\ UNCHANGED <<plain_run, answered>>

\* gateway calls on one LLMProvider, one after another
SpecGateway == InitGateway /\ [][NextGateway]_vars

\* the record of the ainvoke(messages) call that has just returned or raised:
\* what its providers answered and how it ended
RecordPlainRun ==
    plain_run' = IF call'.op = "ainvoke" /\ pc' = "done"
                 THEN [messages |-> call'.messages, made |-> TRUE,
                       replies |-> replies', outcome |-> outcome']
                 ELSE plain_run

\* one conversation, passed to every call
InitSameMessages ==
    /\ ToolInit(<<>>)
    /\ \E mistral_key \in BOOLEAN, openrouter_key \in BOOLEAN :
          LLMInit(mistral_key, openrouter_key)
    /\ \E messages \in Conversations : plain_run = NoPlainRun(messages)
    /\ PolicyInit(<<>>)
    /\ AgentInit
    /\ RestInit

NextSameMessages ==
    \/ Ainvoke(plain_run.messages) /\ RecordPlainRun /\ UNCHANGED answered
    \/ \E functions \in FunctionLists :
          AinvokeWithFunctions(plain_run.messages, functions) /\ RecordPlainRun /\ UNCHANGED answered
    \/ \E content \in ReplyContents : PrimaryReturns(content) /\ RecordPlainRun /\ UNCHANGED answered
    \/ \E e \in Causes : PrimaryRaises(e) /\ RecordPlainRun /\ UNCHANGED answered
    \/ \E content \in ReplyContents :
          FunctionCallReturns(content) /\ RecordPlainRun /\ UNCHANGED answered
    \/ \E e \in Causes : FunctionCallRaises(e) /\ RecordPlainRun /\ UNCHANGED answered
    \/ \E content \in ReplyContents : FallbackReturns(content) /\ RecordPlainRun /\ UNCHANGED answered
    \/ \E e \in Causes : FallbackRaises(e) /\ RecordPlainRun /\ UNCHANGED answered

\* ainvoke and ainvoke_with_functions called with the same messages on one
\* LLMProvider, one after another
SpecSameMessages == InitSameMessages /\ [][NextSameMessages]_vars

InitPolicy ==
    /\ ToolInit(<<>>)
    /\ LLMInit(TRUE, TRUE)
    /\ plain_run = NoPlainRun(<<>>)
    /\ \E items \in ItemLists : PolicyInit(items)
    /\ AgentInit
    /\ RestInit

NextPolicy ==
    \/ FilterEmails
    \/ FilterMessages

\* filter calls of one PolicyEngine on a list and on what it kept of it
SpecPolicy == InitPolicy /\ [][NextPolicy]_vars

\* one request, of a caller with some permissions, with both providers of
\* the gateway configured or none
InitAgent ==
    /\ \E permissions \in AgentPermissionMaps : ToolInit(permissions)
    /\ \E key \in BOOLEAN : LLMInit(key, key)
    /\ plain_run = NoPlainRun(<<>>)
    /\ PolicyInit(<<>>)
    /\ AgentInit
    /\ RestInit

NextAgent ==
    \/ \E query \in Queries : ProcessQuery(query)
    \/ \E required \in SurfaceSets : ParseQueryAnswered(required)
    \/ ParseQueryHeuristic
    \/ CheckPermissions
    \/ ErrorResponse
    \/ SelectTools
    \/ DispatchTools
    \/ \E t \in AgentTools : \E data \in BackendData(t) : ToolCallReturns(t, data)
    \/ \E t \in AgentTools, cause \in ToolCauses : ToolCallFails(t, cause)
    \/ ExecuteToolsDone
    \/ FilterResults
    \/ AggregateResults
    \/ \E content \in ReplyContents : GenerateResponseAnswered(content)
    \/ GenerateResponseFailed

\* OrdoAgent.process_query on one request
SpecAgent == InitAgent /\ [][NextAgent]_vars

InitContent ==
    /\ ToolInit(<<>>)
    /\ LLMInit(TRUE, TRUE)
    /\ plain_run = NoPlainRun(<<>>)
    /\ PolicyInit(<<>>)
    /\ AgentInit
    /\ \E content \in Contents : ContentInit(content)
    /\ ChainInit([query |-> "hackathon invites"])
    /\ StatsInit
    /\ TasksInit
    /\ PromptInit(PyNone, PyNone)
    /\ ExtraInit

NextContent == \E surface \in ContentSurfaces : FilterContent(surface)

\* filter_content called on one content object, time after time
SpecContent == InitContent /\ [][NextContent]_vars

InitChain ==
    /\ \E permissions \in ChainPermissionMaps : ToolInit(permissions)
    /\ LLMInit(TRUE, TRUE)
    /\ plain_run = NoPlainRun(<<>>)
    /\ PolicyInit(<<>>)
    /\ AgentInit
    /\ ContentInit(PyNone)
    /\ \E a \in ArgMaps : ChainInit(a)
    /\ StatsInit
    /\ TasksInit
    /\ PromptInit(PyNone, PyNone)
    /\ ExtraInit

NextChain ==
    \/ \E tool_name \in ChainTools, confirmation \in BOOLEAN :
          ExecuteTool(tool_name, confirmation)
    \/ \E tool_name \in ChainTools, delivered \in BOOLEAN :
          InjectOrdoContext(tool_name, delivered)
    \/ \E result \in HandlerResults : InjectHandlerReturns(result)
    \/ \E e \in HandlerErrors : InjectHandlerRaises(e)
    \/ \E tool_name \in ChainTools, delivered \in BOOLEAN :
          AuditToolCalls(tool_name, delivered)
    \/ \E result \in HandlerResults, delivered \in BOOLEAN :
          AuditHandlerReturns(result, delivered)
    \/ \E e \in HandlerErrors, delivered \in BOOLEAN :
          AuditHandlerRaises(e, delivered)

\* one call of execute_tool and one call of an interceptor, with one context
\* and one args map
SpecChain == InitChain /\ [][NextChain]_vars

\* the count of the calls each provider answered: one more for the provider
\* of the last attempt when the call in flight returns a message
RecordAnswered ==
    answered' = IF outcome.status = "none" /\ outcome'.status = "returned"
                THEN [answered EXCEPT
                        ![attempts'[Len(attempts')].provider] = @ + 1]
                ELSE answered

InitStats ==
    /\ ToolInit(<<>>)
    /\ \E mistral_key \in BOOLEAN, openrouter_key \in BOOLEAN :
          LLMInit(mistral_key, openrouter_key)
    /\ plain_run = NoPlainRun(<<>>)
    /\ PolicyInit(<<>>)
    /\ AgentInit
    /\ RestInit

NextStats ==
    \/ \E messages \in { c \in Conversations : Len(c) = 0 } :
          Ainvoke(messages) /\ RecordAnswered /\ UNCHANGED plain_run
    \/ \E messages \in { c \in Conversations : Len(c) = 0 },
          functions \in FunctionLists :
          AinvokeWithFunctions(messages, functions)
            /\ RecordAnswered /\ UNCHANGED plain_run
    \/ \E content \in ReplyContents :
          PrimaryReturns(content) /\ RecordAnswered /\ UNCHANGED plain_run
    \/ \E e \in Causes :
          PrimaryRaises(e) /\ RecordAnswered /\ UNCHANGED plain_run
    \/ \E content \in ReplyContents :
          FunctionCallReturns(content) /\ RecordAnswered /\ UNCHANGED plain_run
    \/ \E e \in Causes :
          FunctionCallRaises(e) /\ RecordAnswered /\ UNCHANGED plain_run
    \/ \E content \in ReplyContents :
          FallbackReturns(content) /\ RecordAnswered /\ UNCHANGED plain_run
    \/ \E e \in Causes :
          FallbackRaises(e) /\ RecordAnswered /\ UNCHANGED plain_run
    \/ GetStats /\ UNCHANGED <<plain_run, answered>>
    \/ ResetStats /\ answered' = NoneAnswered /\ UNCHANGED plain_run

\* gateway calls, get_stats and reset_stats on one LLMProvider, in any order
SpecStats == InitStats /\ [][NextStats]_vars

InitTasks ==
    /\ ToolInit(<<>>)
    /\ \E mistral_key \in BOOLEAN, openrouter_key \in BOOLEAN :
          LLMInit(mistral_key, openrouter_key)
    /\ plain_run = NoPlainRun(<<>>)
    /\ PolicyInit(<<>>)
    /\ AgentInit
    /\ RestInit

NextTasks ==
    \/ \E t \in Tasks, op \in {"ainvoke", "ainvoke_with_functions"} :
          TaskCalls(t, op)
    \/ \E t \in Tasks : TaskPrimaryReturns(t)
    \/ \E t \in Tasks : TaskPrimaryRaises(t)
    \/ \E t \in Tasks : TaskFallbackReturns(t)
    \/ \E t \in Tasks : TaskFallbackRaises(t)

\* MaxTasks callers of one LLMProvider, each making one call, interleaved at
\* their awaits
SpecTasks == InitTasks /\ [][NextTasks]_vars

InitPrompt ==
    /\ ToolInit(<<>>)
    /\ LLMInit(TRUE, TRUE)
    /\ plain_run = NoPlainRun(<<>>)
    /\ PolicyInit(<<>>)
    /\ AgentInit
    /\ ContentInit(PyNone)
    /\ ChainInit([query |-> "hackathon invites"])
    /\ StatsInit
    /\ TasksInit
    /\ \E custom_instructions \in CustomInstructions,
          available_surfaces \in SurfaceLists :
          PromptInit(custom_instructions, available_surfaces)
    /\ ExtraInit

NextPrompt == GetSystemPrompt

\* one call of get_system_prompt
SpecPrompt == InitPrompt /\ [][NextPrompt]_vars

-----------------------------------------------------------------------------
(* Properties of execute_tool, checked under SpecTools *)

\* the surface of the tool the call names
RequestedSurface == get_surface_from_tool(request.tool_name)

\* the surfaces whose tools act on the user's behalf
WriteSurfaces ==
    { "WRITE_GMAIL", "WRITE_SOCIAL_X", "WRITE_SOCIAL_TELEGRAM",
      "SIGN_TRANSACTIONS" }

\* the caller's permissions map holds TRUE under key S
Granted(S) ==
    S \in DOMAIN context.permissions /\ context.permissions[S] = TRUE

\* the error the call raised names S
ErrorNames(S) ==
    \E i \in DOMAIN tool_outcome.error.text : tool_outcome.error.text[i] = S

\* C1: a call naming a tool of a known surface S, under a context whose
\* permissions[S] is false or absent, produces no tool result: it fails with
\* a PermissionError that names S.
C1_PermissionGating ==
    \A S \in Surfaces :
        (request.made /\ RequestedSurface = S /\ ~Granted(S))
            => /\ tool_outcome.status = "raised"
               /\ tool_outcome.error.type = "PermissionError"
               /\ ErrorNames(S)

\* C1 happens: a tool of a known surface was called under a context that
\* does not hold the surface's key at all, and the call was refused.
C1_Witness ==
    /\ request.made
    /\ RequestedSurface \in Surfaces
    /\ RequestedSurface \notin DOMAIN context.permissions
    /\ tool_outcome.status = "raised"

\* C2 (as claimed): a call naming a tool that classifies as UNKNOWN fails the
\* permission check under every context; the tool is never executed.
C2_UnknownFailsClosed ==
    (request.made /\ RequestedSurface = "UNKNOWN")
        => tool_outcome.status = "raised"

\* C3 (as claimed): every call of execute_tool ends by returning a result
\* record; no exception reaches the caller.
C3_AlwaysReturnsRecord ==
    request.made
        => /\ tool_outcome.status = "returned"
           /\ {"success", "data"} \subseteq DOMAIN tool_outcome.result

\* C3 (amended): every call ends either by returning a result record that
\* holds a success flag and data, or by raising PermissionError to its
\* caller; it returns whenever the context grants the tool's surface, and it
\* raises only when the context does not grant it.
C3_ReturnsRecordOrRaisesPermissionError ==
    request.made
        => /\ tool_outcome.status \in {"returned", "raised"}
           /\ tool_outcome.status = "returned"
                => /\ {"success", "data"} \subseteq DOMAIN tool_outcome.result
                   /\ tool_outcome.result.success \in BOOLEAN
           /\ tool_outcome.status = "raised"
                => /\ tool_outcome.error.type = "PermissionError"
                   /\ ~Granted(RequestedSurface)
           /\ Granted(RequestedSurface) => tool_outcome.status = "returned"

\* C3 happens: a call was refused under a context that holds the surface's
\* key with the value False, and the refusal reached the caller as an error.
C3_Witness ==
    /\ request.made
    /\ RequestedSurface \in DOMAIN context.permissions
    /\ context.permissions[RequestedSurface] = FALSE
    /\ tool_outcome.status = "raised"

\* C4 (as claimed): a tool of a write surface is executed only when an
\* external confirmation of the action was received; the permission alone
\* does not suffice.
C4_WriteNeedsConfirmation ==
    (request.made /\ RequestedSurface \in WriteSurfaces
        /\ tool_outcome.status = "returned")
        => request.confirmed

-----------------------------------------------------------------------------
(* Properties of the gateway, checked under SpecGateway *)

\* the positions in attempts of the invocations of provider p
AttemptsOf(p) == { i \in 1..Len(attempts) : attempts[i].provider = p }

\* the positions of the primary invocations made by ainvoke itself
PlainPrimaryAttempts ==
    { i \in AttemptsOf("primary") : attempts[i].functions = NoFunctions }

\* the positions of the primary invocations that carry function schemas
FunctionAttempts ==
    { i \in AttemptsOf("primary") : attempts[i].functions # NoFunctions }

\* invocation i has been answered, with an exception
Failed(i) == i <= Len(replies) /\ ~replies[i].ok

\* invocation i has been answered, with a message
Answered(i) == i <= Len(replies) /\ replies[i].ok

\* C5: when the primary raises under ainvoke and a fallback is configured,
\* the fallback is invoked exactly once, with as many messages as the caller
\* passed, in the caller's order, each with its content unchanged and with
\* role system for type system, assistant for type ai and user for every
\* other type; and the message the fallback answers with is what the call
\* returns.
C5_FailoverMessages ==
    (fallback_llm /\ \E i \in PlainPrimaryAttempts : Failed(i))
        => /\ Cardinality(AttemptsOf("fallback")) = 1
           /\ \A k \in AttemptsOf("fallback") :
                /\ Len(attempts[k].messages) = Len(call.messages)
                /\ \A i \in 1..Len(call.messages) :
                     LET sent == attempts[k].messages[i]
                         given == call.messages[i]
                     IN  /\ sent.content = given.content
                         /\ given.type = "system" => sent.role = "system"
                         /\ given.type = "ai" => sent.role = "assistant"
                         /\ given.type \notin {"system", "ai"}
                              => sent.role = "user"
                /\ Answered(k)
                     => /\ pc = "done"
                        /\ outcome.status = "returned"
                        /\ outcome.message = replies[k].value

\* C5 happens: ainvoke was called with a system message followed by an ai
\* message, the primary raised, and the call returned the fallback's answer.
C5_Witness ==
    /\ call.op = "ainvoke"
    /\ Len(call.messages) = 2
    /\ call.messages[1].type = "system"
    /\ call.messages[2].type = "ai"
    /\ Len(attempts) = 2
    /\ Failed(1)
    /\ Answered(2)
    /\ pc = "done"
    /\ outcome.status = "returned"

\* a step in which the call in flight returns a message
ReturnsMessage == outcome.status = "none" /\ outcome'.status = "returned"

\* C6: the step in which a gateway call returns a message adds 1 to the
\* counter of the provider that produced the message and leaves the other
\* counter alone; every other step of a call, the steps in which it raises
\* included, leaves both counters alone.
C6_CountersPerCall ==
    [][ /\ ReturnsMessage
          => LET producer == attempts'[Len(attempts')].provider
             IN  /\ producer = "primary"
                      => /\ primary_count' = primary_count + 1
                         /\ fallback_count' = fallback_count
                 /\ producer = "fallback"
                      => /\ fallback_count' = fallback_count + 1
                         /\ primary_count' = primary_count
        /\ ~ReturnsMessage
          => /\ primary_count' = primary_count
             /\ fallback_count' = fallback_count ]_vars

\* C6 happens: the primary raised TimeoutError, the fallback answered, and
\* the counters stand at 0 and 1.
C6_Witness ==
    /\ pc = "done"
    /\ outcome.status = "returned"
    /\ Len(attempts) = 2
    /\ replies[1] = [ok |-> FALSE, value |-> "TimeoutError"]
    /\ attempts[2].provider = "fallback"
    /\ primary_count = 0
    /\ fallback_count = 1

\* C7: with neither provider configured, a call fails at once with the
\* error "No LLM available ...": it never waits for a provider, invokes
\* none, and both counters keep their value.
C7_NoProviderConfigured ==
    (~primary_llm /\ ~fallback_llm)
        => /\ pc \in {"idle", "done"}
           /\ attempts = <<>>
           /\ primary_count = 0
           /\ fallback_count = 0
           /\ call.op # "none"
                => /\ outcome.status = "raised"
                   /\ outcome.error.type = "RuntimeError"
                   /\ outcome.error.text =
                        <<"No LLM available (both primary and fallback are None)">>

\* C7 happens: ainvoke was called on a provider with no LLM configured.
C7_Witness ==
    /\ ~primary_llm
    /\ ~fallback_llm
    /\ call.op = "ainvoke"
    /\ pc = "done"
    /\ outcome.status = "raised"

\* the call ended after the primary and then the fallback raised
BothFailed ==
    /\ pc = "done"
    /\ \E i \in AttemptsOf("primary") : Failed(i)
    /\ \E k \in AttemptsOf("fallback") : Failed(k)

\* the error the call raised holds cause e in its text
TextNames(e) ==
    \E i \in DOMAIN outcome.error.text : outcome.error.text[i] = e

C9_PrimaryFirst ==
    (primary_llm /\ call.op # "none")
        => /\ attempts # <<>>
           /\ attempts[1].provider = "primary"
           /\ \A k \in AttemptsOf("fallback") :
                \E i \in AttemptsOf("primary") : i < k /\ Failed(i)
           /\ (\E i \in AttemptsOf("primary") : Answered(i))
                => AttemptsOf("fallback") = {}

\* C9 happens: both providers are configured, the primary answered ainvoke,
\* and the call ended without a fallback invocation.
C9_Witness ==
    /\ primary_llm
    /\ fallback_llm
    /\ call.op = "ainvoke"
    /\ pc = "done"
    /\ Answered(1)
    /\ Len(attempts) = 1

\* C10 (as claimed): within one gateway call, ainvoke or
\* ainvoke_with_functions, each provider is invoked at most once.
C10_EachProviderAtMostOnce ==
    /\ Cardinality(AttemptsOf("primary")) <= 1
    /\ Cardinality(AttemptsOf("fallback")) <= 1

\* C10 (amended): within one ainvoke call each provider is invoked at most
\* once.  Within one ainvoke_with_functions call the fallback is invoked at
\* most once and the primary at most twice: once with the function schemas
\* and, only after that invocation raised, once more without them.
C10_BoundedAttempts ==
    /\ Cardinality(AttemptsOf("fallback")) <= 1
    /\ Cardinality(PlainPrimaryAttempts) <= 1
    /\ Cardinality(FunctionAttempts) <= 1
    /\ call.op = "ainvoke" => FunctionAttempts = {}
    /\ call.op = "ainvoke_with_functions" /\ PlainPrimaryAttempts # {}
         => FunctionAttempts # {}
    /\ \A i \in PlainPrimaryAttempts :
         \A j \in FunctionAttempts : j < i /\ Failed(j)

\* C10 happens: ainvoke_with_functions invoked the primary with the
\* schemas, then the primary without them, then the fallback.
C10_Witness ==
    /\ call.op = "ainvoke_with_functions"
    /\ Len(attempts) = 3
    /\ attempts[1].provider = "primary"
    /\ attempts[1].functions # NoFunctions
    /\ attempts[2].provider = "primary"
    /\ attempts[2].functions = NoFunctions
    /\ attempts[3].provider = "fallback"

-----------------------------------------------------------------------------
(* Properties of ainvoke_with_functions against ainvoke, checked under     *)
(* SpecSameMessages                                                        *)

\* the primary cannot serve the function-calling call: there is none, or its
\* function-calling attempt failed
PrimaryUnavailable ==
    \/ ~primary_llm
    \/ \E i \in FunctionAttempts : Failed(i)

\* what the providers answered after the function-calling attempt, that is,
\* inside the ainvoke that ainvoke_with_functions delegated to
DelegatedReplies ==
    [i \in 1..(Len(replies) - Cardinality(FunctionAttempts)) |->
        replies[i + Cardinality(FunctionAttempts)]]

\* C11: when the primary is unavailable (not configured, or its
\* function-calling attempt fails), ainvoke_with_functions ends exactly as
\* ainvoke ends for the same messages when the providers answer it the same
\* way, and no invocation of the fallback carries function schemas.
C11_DegradesToAinvoke ==
    /\ \A i \in AttemptsOf("fallback") : attempts[i].functions = NoFunctions
    /\ ( /\ call.op = "ainvoke_with_functions"
         /\ pc = "done"
         /\ PrimaryUnavailable
         /\ plain_run.made
         /\ plain_run.messages = call.messages
         /\ plain_run.replies = DelegatedReplies )
       => outcome = plain_run.outcome

\* a function-calling call whose primary attempt failed, answered by the
\* fallback as an earlier ainvoke of the same messages was
C11_Witness ==
    /\ call.op = "ainvoke_with_functions"
    /\ pc = "done"
    /\ \E i \in FunctionAttempts : Failed(i)
    /\ AttemptsOf("fallback") # {}
    /\ plain_run.made
    /\ plain_run.messages = call.messages
    /\ Len(call.messages) > 0
    /\ plain_run.replies = DelegatedReplies
    /\ outcome.status = "returned"

-----------------------------------------------------------------------------
(* Properties of the filters, checked under SpecPolicy *)

\* the text fields of an item one after another, nothing between them:
\* subject + body for filter_emails, text for filter_messages
PlainConcat(op, item) ==
    IF op = "filter_emails"
    THEN Get(item, "subject", <<>>) \o Get(item, "body", <<>>)
    ELSE Get(item, "text", <<>>)

\* the text fields of an item as the filter joins them: subject, one space,
\* body for filter_emails, text for filter_messages
SpacedConcat(op, item) ==
    IF op = "filter_emails"
    THEN Get(item, "subject", <<>>) \o <<" ">> \o Get(item, "body", <<>>)
    ELSE Get(item, "text", <<>>)

\* the names of the detectors that match text
DetectorsOn(text) ==
    { PATTERNS[i].name :
        i \in { j \in 1..Len(PATTERNS) : Search(PATTERNS[j].pattern, text) } }

\* the same for every text the properties ask about, computed once
Detectors ==
    [text \in { PlainConcat(op, item) :
                  op \in {"filter_emails", "filter_messages"}, item \in Items }
              \cup { SpacedConcat(op, item) :
                  op \in {"filter_emails", "filter_messages"}, item \in Items }
        |-> DetectorsOn(text)]

\* the items of c's list that the filter dropped, as positions in the list
Dropped(c) ==
    { i \in 1..Len(c.items) : Detectors[SpacedConcat(c.op, c.items[i])] # {} }

\* C17: for a list of N items, the number of items filter_emails /
\* filter_messages kept plus blocked_count is N.
C17_Conservation ==
    \A k \in 1..Len(policy_calls) :
        Len(Kept(policy_calls[k])) + policy_calls[k].result.blocked_count
            = Len(policy_calls[k].items)

\* a list of MaxItems items of which some were kept and some blocked, one of
\* them by two detectors
C17_Witness ==
    \E k \in 1..Len(policy_calls) :
        /\ Len(policy_calls[k].items) = MaxItems
        /\ Len(Kept(policy_calls[k])) > 0
        /\ policy_calls[k].result.blocked_count > 0
        /\ \E i \in Dropped(policy_calls[k]) :
              Cardinality(Detectors[SpacedConcat(policy_calls[k].op,
                                                 policy_calls[k].items[i])]) > 1

\* C18 as stated: an item is dropped iff some detector matches the
\* concatenation of its text fields (subject + body, or text); the kept list
\* is the other items, unmodified and in their order; a one-item list whose
\* item matches an OTP detector gives kept = [] and blocked_count = 1.
C18_DroppedIffPlainConcatMatches ==
    \A k \in 1..Len(policy_calls) :
        LET c == policy_calls[k]
            clean(item) == Detectors[PlainConcat(c.op, item)] = {}
        IN  /\ Kept(c) = SelectSeq(c.items, clean)
            /\ ( /\ Len(c.items) = 1
                 /\ Detectors[PlainConcat(c.op, c.items[1])]
                        \cap pattern_categories[<<"O","T","P">>] # {} )
               => Kept(c) = <<>> /\ c.result.blocked_count = 1

\* C18 amended: an item is dropped iff some detector matches its text
\* fields joined as the filter joins them (subject, one space, body; or
\* text); the kept list is the other items, unmodified and in their order; a
\* one-item list whose item matches an OTP detector gives kept = [] and
\* blocked_count = 1.
C18_DroppedIffJoinedTextMatches ==
    \A k \in 1..Len(policy_calls) :
        LET c == policy_calls[k]
            clean(item) == Detectors[SpacedConcat(c.op, item)] = {}
        IN  /\ Kept(c) = SelectSeq(c.items, clean)
            /\ ( /\ Len(c.items) = 1
                 /\ Detectors[SpacedConcat(c.op, c.items[1])]
                        \cap pattern_categories[<<"O","T","P">>] # {} )
               => Kept(c) = <<>> /\ c.result.blocked_count = 1

\* filter_emails dropped an email that no detector matches without the space
\* between subject and body and kept another one, and some filter was given
\* one item with an OTP match
C18_Witness ==
    /\ \E k \in 1..Len(policy_calls) :
          LET c == policy_calls[k]
          IN  /\ c.op = "filter_emails"
              /\ Len(Kept(c)) > 0
              /\ \E i \in Dropped(c) :
                    /\ "subject" \in DOMAIN c.items[i]
                    /\ "body" \in DOMAIN c.items[i]
                    /\ Detectors[PlainConcat(c.op, c.items[i])] = {}
    /\ \E k \in 1..Len(policy_calls) :
          LET c == policy_calls[k]
          IN  /\ Len(c.items) = 1
              /\ Detectors[SpacedConcat(c.op, c.items[1])]
                     \cap pattern_categories[<<"O","T","P">>] # {}
              /\ Kept(c) = <<>>

\* C19: filtering is idempotent: the same filter on the list a filter kept
\* returns that list unchanged, with blocked_count 0 and no blocked patterns.
C19_Idempotent ==
    \A k \in 2..Len(policy_calls) :
        ( /\ policy_calls[k].op = policy_calls[k - 1].op
          /\ policy_calls[k].items = Kept(policy_calls[k - 1]) )
        => /\ Kept(policy_calls[k]) = policy_calls[k].items
           /\ policy_calls[k].result.blocked_count = 0
           /\ policy_calls[k].result.blocked_patterns = {}

\* a filter that blocked two items and kept one was called again on what it
\* kept
C19_Witness ==
    \E k \in 2..Len(policy_calls) :
        /\ policy_calls[k].op = policy_calls[k - 1].op
        /\ policy_calls[k].items = Kept(policy_calls[k - 1])
        /\ policy_calls[k - 1].result.blocked_count > 1
        /\ Len(policy_calls[k].items) > 0

\* the categories that hold one of the detectors `names`
CategoriesOf(names) ==
    { category \in DOMAIN pattern_categories :
        pattern_categories[category] \cap names # {} }

\* C20: the blocked set a filter returns is the union, over the items it
\* dropped, of the categories of the detectors that matched them (OTP,
\* VERIFICATION, RECOVERY, PASSWORD, BANK, TAX, CREDIT_CARD), and holds no
\* name of a single detector.
C20_BlockedSetIsCategories ==
    \A k \in 1..Len(policy_calls) :
        LET c == policy_calls[k]
        IN  c.result.blocked_patterns
              = UNION { CategoriesOf(Detectors[SpacedConcat(c.op, c.items[i])]) :
                          i \in Dropped(c) }

-----------------------------------------------------------------------------
(* Properties of the pipeline, checked under SpecAgent *)

\* s is the start of t
IsPrefix(s, t) == Len(s) <= Len(t) /\ \A i \in 1..Len(s) : s[i] = t[i]

\* C12: a request visits the stages in the order parse_query,
\* check_permissions, select_tools, execute_tools, filter_results,
\* aggregate_results, generate_response, DONE, none skipped, repeated or
\* reordered, except that check_permissions with a missing permission goes
\* to error_response and then DONE.
C12_StageOrder ==
    /\ IsPrefix(agent_visited, FullOrder) \/ IsPrefix(agent_visited, DeniedOrder)
    /\ agent_stage = "DONE" => agent_visited \in {FullOrder, DeniedOrder}
    /\ IsPrefix(<<"parse_query", "check_permissions", "error_response">>,
                agent_visited)
         => MissingSurfaces(agent_state.required, context) # {}

\* a request that went through all eight stages with two tools, and
\* answered
C12_Witness ==
    /\ agent_visited = FullOrder
    /\ Cardinality(agent_state.selected) > 1
    /\ agent_output.status = "returned"

\* the stages after check_permissions
PastCheck == Len(agent_visited) > 2

\* the error entries about permissions
PermissionEntries ==
    { i \in 1..Len(agent_state.errors) :
        \/ agent_state.errors[i].kind = "PermissionDenied"
        \/ /\ agent_state.errors[i].kind = "ToolExecutionError"
           /\ agent_state.errors[i].cause = "PermissionError" }

\* C13: check_permissions goes to error_response iff some required surface
\* is false or absent in the context's permissions; then select_tools and
\* execute_tools are not entered, no tool is dispatched, the response names
\* each missing surface and errors is not empty; when every required
\* surface is granted, errors has no permission entry.
C13_ErrorResponseIffMissing ==
    LET missing == { S \in agent_state.required :
                       \/ S \notin DOMAIN context.permissions
                       \/ ~context.permissions[S] }
        denied == \E i \in 1..Len(agent_visited) :
                      agent_visited[i] = "error_response"
    IN  PastCheck =>
          /\ denied <=> missing # {}
          /\ denied =>
               /\ \A i \in 1..Len(agent_visited) :
                     agent_visited[i] \notin {"select_tools", "execute_tools"}
               /\ ~agent_calls.dispatched
               /\ agent_state.selected = {}
               /\ agent_state.errors # <<>>
               /\ agent_stage = "DONE" =>
                     \A S \in missing :
                        \E i \in 1..Len(agent_output.response) :
                            agent_output.response[i] = S
          /\ missing = {} => PermissionEntries = {}

\* a request that requires two surfaces, one granted and one set to false,
\* ended in error_response
C13_Witness ==
    /\ agent_visited = DeniedOrder
    /\ Cardinality(agent_state.required) > 1
    /\ \E S \in agent_state.required :
          S \in DOMAIN context.permissions /\ context.permissions[S]
    /\ \E S \in agent_state.required :
          S \in DOMAIN context.permissions /\ ~context.permissions[S]
    /\ agent_output.status = "returned"

\* process_query has returned the record of response, sources and errors,
\* and with no provider at all errors and response are not empty
ReturnedRecord ==
    /\ agent_output.status = "returned"
    /\ DOMAIN agent_output = {"status", "response", "sources", "errors"}
    /\ (~primary_llm /\ ~fallback_llm) =>
          /\ agent_output.errors # <<>>
          /\ agent_output.response # <<>>

\* C14: process_query does not raise: whatever the query and the context,
\* also with no provider at all, it returns response, sources and errors;
\* an entry recorded in errors by one stage is not removed by a later one;
\* with no provider errors is not empty and response is a non-empty string.
C14_NeverRaises ==
    /\ [](agent_stage = "DONE" => ReturnedRecord)
    /\ [][IsPrefix(agent_state.errors, agent_state'.errors)]_vars

\* a request with no provider at all, through all stages, with a failed
\* tool call before the final failure of the gateway
C14_Witness ==
    /\ agent_stage = "DONE"
    /\ ~primary_llm /\ ~fallback_llm
    /\ agent_visited = FullOrder
    /\ Len(agent_output.errors) > 1

\* the tools whose dispatched call failed
FailedTools ==
    { t \in DOMAIN agent_calls.status : agent_calls.status[t] = "failed" }

\* the entries of errors for tool t
EntriesFor(t) ==
    { i \in 1..Len(agent_state.errors) :
        /\ agent_state.errors[i].kind = "ToolExecutionError"
        /\ agent_state.errors[i].tool = t }

\* C15: if one of the tool calls dispatched together in execute_tools
\* fails, every other call still runs to completion, the successful result
\* of each of them appears in the output of aggregate_results, and errors
\* has exactly one entry for the failing tool.
C15_Isolation ==
    ( /\ agent_stage \in {"generate_response", "DONE"}
      /\ agent_calls.dispatched
      /\ FailedTools # {} )
    => /\ \A t \in DOMAIN agent_calls.status :
             agent_calls.status[t] \in {"returned", "failed"}
       /\ \A t \in DOMAIN agent_calls.status \ FailedTools :
             \E a \in agent_state.aggregated :
                 a.tool = t /\ a.surface = get_surface_from_tool(t)
       /\ \A t \in FailedTools : Cardinality(EntriesFor(t)) = 1

\* two calls dispatched together, the first to come back failed, the other
\* returned afterwards and its items are in the aggregate
C15_Witness ==
    /\ agent_stage = "DONE"
    /\ Cardinality(DOMAIN agent_calls.status) = 2
    /\ Cardinality(FailedTools) = 1
    /\ agent_state.errors[1].kind = "ToolExecutionError"
    /\ \E a \in agent_state.aggregated : Len(a.items) > 0

\* C16: execute_tools is over, and filter_results starts, only after every
\* call it dispatched has come back: no later stage sees a dispatched call
\* outstanding, whatever the order in which the calls come back.
C16_FanIn ==
    agent_stage \in {"filter_results", "aggregate_results",
                     "generate_response", "DONE"}
    => /\ agent_calls.dispatched \/ agent_stage = "DONE"
       /\ \A t \in DOMAIN agent_calls.status : agent_calls.status[t] # "pending"
       /\ DOMAIN agent_calls.status = agent_state.selected

\* filter_results after two calls, of which the one of the wallet tool came
\* back before the one of the mail tool
C16_Witness ==
    /\ agent_stage = "filter_results"
    /\ Len(agent_state.results) = 2
    /\ agent_state.results[1].tool = Tool_get_wallet_portfolio
    /\ agent_state.results[2].tool = Tool_search_email_threads

-----------------------------------------------------------------------------
(* Classification of read and write, checked under SpecTools *)

\* the substrings get_surface_from_tool takes for the sign of a surface
SurfaceKeywords ==
    { Kw_email, Kw_gmail, Kw_x_us, Kw_twitter, Kw_telegram, Kw_wallet,
      Kw_token, Kw_transaction }

\* the verbs get_surface_from_tool takes for the sign of a write
WriteVerbs == { Kw_send, Kw_post, Kw_build, Kw_transfer, Kw_swap }

\* the name of the call holds one of the substrings
Names(kws) == \E kw \in kws : Contains(Lower(request.tool_name), kw)

\* C29: a tool name that holds a surface keyword together with one of the
\* verbs send, post, build, transfer, swap is classified to a write surface,
\* never to a READ_* surface.
C29_VerbMeansWrite ==
    ( request.made /\ Names(SurfaceKeywords) /\ Names(WriteVerbs) )
        => RequestedSurface \in WriteSurfaces

-----------------------------------------------------------------------------
(* Properties of filter_content, checked under SpecContent, and of the      *)
(* filters on items without text, checked under SpecPolicy                  *)

\* content is a tool result: a dict with the keys success and data
IsToolResult(content) ==
    /\ content.type = "dict"
    /\ "success" \in DOMAIN content.dict
    /\ "data" \in DOMAIN content.dict

\* content is a tool result whose data is a single text
IsBlobResult(content) ==
    IsToolResult(content) /\ content.dict.data.type = "str"

\* C21: after filter_content on a tool result whose data is a single text
\* that is_sensitive flags, the result has success = false, carries the
\* names matched, and no longer carries the payload; a text that is not
\* flagged leaves the result as it was.
C21_BlockedBlobDropsPayload ==
    \A k \in 1..Len(fc_calls) :
        IsBlobResult(fc_calls[k].content) =>
            IF Detectors[fc_calls[k].content.dict.data.str] # {}
            THEN /\ fc_calls[k].returned.dict.success = FALSE
                 /\ ListOfSet(fc_calls[k].returned.dict.blocked_patterns)
                      = Detectors[fc_calls[k].content.dict.data.str]
                 /\ "data" \in DOMAIN fc_calls[k].returned.dict
                      => fc_calls[k].returned.dict.data
                           # fc_calls[k].content.dict.data
            ELSE fc_calls[k].returned = fc_calls[k].content

\* the item holds no text for the filter: no subject and no body, or empty
\* ones, for filter_emails; no text, an empty one or None for filter_messages
Textless(op, item) ==
    IF op = "filter_emails"
    THEN Get(item, "subject", <<>>) = <<>> /\ Get(item, "body", <<>>) = <<>>
    ELSE Get(item, "text", <<>>) \in {<<>>, NoText}

\* C22: is_sensitive on an empty or absent text returns (false, no matches),
\* and filter_emails / filter_messages return a result that keeps every item
\* whose text fields are missing or empty.
C22_TextlessIsKept ==
    /\ is_sensitive(<<>>) = <<FALSE, <<>>>>
    /\ is_sensitive(NoText) = <<FALSE, <<>>>>
    /\ \A k \in 1..Len(policy_calls) :
          /\ policy_calls[k].result.blocked_count \in 0..Len(policy_calls[k].items)
          /\ \A i \in 1..Len(policy_calls[k].items) :
                Textless(policy_calls[k].op, policy_calls[k].items[i])
                    => policy_calls[k].items[i]
                          \in ListOfSet(Kept(policy_calls[k]))

\* filter_messages was given an item with an empty text, one with None for
\* its text, and one without a text, and kept the three
C22_Witness ==
    \E k \in 1..Len(policy_calls) :
        /\ policy_calls[k].op = "filter_messages"
        /\ policy_calls[k].items = <<ItemById("m3"), ItemById("m5"), ItemById("e1")>>
        /\ Kept(policy_calls[k]) = policy_calls[k].items

\* the call took something out: the list it returns is shorter than the one
\* it was given, or its single text was flagged and the result marked failed
TookOut(c) ==
    /\ IsToolResult(c.content)
    /\ \/ /\ c.content.dict.data.type = "list"
          /\ Len(c.returned.dict.data.list) < Len(c.content.dict.data.list)
       \/ /\ c.content.dict.data.type = "str"
          /\ Detectors[c.content.dict.data.str] # {}
          /\ c.returned.dict.success = FALSE

\* C23: filter_content writes exactly one policy-violation record for each
\* call in which an item or the payload was blocked, and none for a call in
\* which nothing was blocked.
C23_OneRecordPerBlockingCall ==
    /\ \A k \in 1..Len(fc_calls) :
          fc_calls[k].logged = IF TookOut(fc_calls[k]) THEN 1 ELSE 0
    /\ Len(violation_log)
         = Cardinality({ k \in 1..Len(fc_calls) : TookOut(fc_calls[k]) })
    /\ \A i \in 1..Len(violation_log) :
          /\ violation_log[i].user_id = context.user_id
          /\ violation_log[i].surface \in ContentSurfaces

\* a list from which the first call took an item, given back to a second
\* call that took nothing: one record for the two calls
C23_Witness ==
    /\ Len(fc_calls) = 2
    /\ TookOut(fc_calls[1])
    /\ fc_calls[1].content.dict.data.type = "list"
    /\ ~TookOut(fc_calls[2])
    /\ Len(violation_log) = 1

-----------------------------------------------------------------------------
(* Properties of execute_tool and the interceptors, checked under SpecChain *)

\* C24: execute_tool, inject_ordo_context and audit_tool_calls leave the
\* caller's context and the caller's args map as they were: no step of
\* theirs changes either, and the handler is given the args the caller passed.
C24_ContextAndArgsUntouched ==
    [][ /\ context' = context
        /\ tool_args' = tool_args
        /\ \A k \in 1..Len(handler_seen') :
              handler_seen'[k].request.args = tool_args ]_vars

\* execute_tool has returned and inject_ordo_context has come back from its
\* handler, for a caller with a permission and the args of an email to send
C24_Witness ==
    /\ request.made
    /\ tool_outcome.status = "returned"
    /\ chain_call.op = "inject_ordo_context"
    /\ chain_call.pc = "done"
    /\ DOMAIN context.permissions # {}
    /\ "to" \in DOMAIN tool_args

\* C25: inject_ordo_context checks the permission of the tool's surface
\* before it calls the next handler: when the permission is missing it
\* raises and the handler is never invoked.
C25_PermissionCheckedBeforeHandler ==
    ( /\ chain_call.op = "inject_ordo_context"
      /\ PermissionMissing(get_surface_from_tool(chain_call.tool_name), context) )
        => /\ handler_seen = <<>>
           /\ chain_call.pc = "done" => chain_outcome.status = "raised"

\* the records of an outcome in the log: the info and the error records
OutcomeRecords ==
    { i \in 1..Len(tool_log) : tool_log[i].level \in {"info", "error"} }

-----------------------------------------------------------------------------
(* Properties of get_stats and reset_stats, checked under SpecStats *)

\* the statistics of the calls answered since the last reset
StatsOf(a) ==
    [primary_count |-> a.primary, fallback_count |-> a.fallback,
     total_count |-> a.primary + a.fallback]

\* C27: get_stats reports, for each provider, the number of calls it has
\* answered since the last reset, and their sum as the total; reset_stats
\* sets both counters to zero and changes nothing else of the provider.
C27_StatsCountAnswered ==
    /\ [](primary_count = answered.primary /\ fallback_count = answered.fallback)
    /\ [][ /\ stats' # stats =>
                /\ stats' = StatsOf(answered)
                /\ stats'.total_count
                     = stats'.primary_count + stats'.fallback_count
           /\ (primary_count' < primary_count \/ fallback_count' < fallback_count) =>
                /\ primary_count' = 0
                /\ fallback_count' = 0
                /\ UNCHANGED <<primary_llm, fallback_llm, pc, call, attempts,
                               replies, outcome, stats>> ]_vars

\* get_stats reported one call answered by each provider, and reset_stats
\* then set both counters to zero
C27_Witness ==
    /\ stats = [primary_count |-> 1, fallback_count |-> 1, total_count |-> 2]
    /\ primary_count = 0
    /\ fallback_count = 0

-----------------------------------------------------------------------------
(* Properties of concurrent callers, checked under SpecTasks *)

\* the callers whose call has returned a message
AnsweredTasks == { t \in Tasks : tasks[t].outcome = "returned" }

\* C28: when several calls of ainvoke / ainvoke_with_functions run at once on
\* one provider, every answered call is counted, none twice and none lost,
\* and a caller suspended at a provider can go on as soon as that provider
\* answers, whatever the other callers are doing.
C28_NoLostIncrement ==
    /\ primary_count + fallback_count = Cardinality(AnsweredTasks)
    /\ \A t \in Tasks :
          /\ tasks[t].pc \in {"primary", "primary_fn"}
                => ENABLED TaskPrimaryReturns(t)
          /\ tasks[t].pc = "fallback" => ENABLED TaskFallbackReturns(t)

\* one caller was answered and counted while a second is suspended at the
\* primary and a third at the fallback
C28_Witness ==
    \E t1, t2, t3 \in Tasks :
        /\ tasks[t1].outcome = "returned"
        /\ tasks[t2].pc \in {"primary", "primary_fn"}
        /\ tasks[t3].pc = "fallback"
        /\ primary_count + fallback_count = 1

-----------------------------------------------------------------------------
(* Properties of get_system_prompt, checked under SpecPrompt *)

\* the argument was given: neither None nor empty
GivenText(v) == v.type = "str" /\ v.str # <<>>
GivenList(v) == v.type = "list" /\ v.list # <<>>

\* where a piece stands in a prompt
PlacesOf(piece, text) == { i \in 1..Len(text) : text[i] = piece }

\* the prompt lists the surfaces from place i on, one line each, in order
ListsFrom(text, i, surfaces) ==
    /\ i + 3 * Len(surfaces) <= Len(text)
    /\ \A j \in 1..Len(surfaces) :
          /\ text[i + 3 * j - 2] = "- "
          /\ text[i + 3 * j - 1] = surfaces[j]
          /\ text[i + 3 * j] = "\n"

\* C30: get_system_prompt returns a text that starts with ORDO_SYSTEM_PROMPT
\* as it is; without arguments, or with empty ones, the text is exactly
\* ORDO_SYSTEM_PROMPT; with surfaces it holds one AVAILABLE SURFACES section,
\* right after ORDO_SYSTEM_PROMPT, that lists every surface given, in order;
\* with custom instructions it ends with one ADDITIONAL INSTRUCTIONS section,
\* after the surfaces section if there is one.
C30_PromptExtendsBase ==
    prompt.returned =>
        LET custom == prompt_args.custom_instructions
            listed == prompt_args.available_surfaces
            surfaces_at == PlacesOf("\n\n## AVAILABLE SURFACES\n\n", prompt.text)
            custom_at == PlacesOf("\n\n## ADDITIONAL INSTRUCTIONS\n\n", prompt.text)
            base == Len(ORDO_SYSTEM_PROMPT)
        IN  /\ IsPrefix(ORDO_SYSTEM_PROMPT, prompt.text)
            /\ (~GivenText(custom) /\ ~GivenList(listed))
                  => prompt.text = ORDO_SYSTEM_PROMPT
            /\ IF GivenList(listed)
               THEN /\ surfaces_at = {base + 1}
                    /\ ListsFrom(prompt.text, base + 2, listed.list)
                    /\ SelectSeq(prompt.text, LAMBDA x : x \in ListedSurfaces)
                         = listed.list
               ELSE surfaces_at = {}
            /\ IF GivenText(custom)
               THEN /\ custom_at = {Len(prompt.text) - Len(custom.str) - 1}
                    /\ SubSeq(prompt.text, Len(prompt.text) - Len(custom.str),
                              Len(prompt.text) - 1) = custom.str
                    /\ \A i \in surfaces_at, k \in custom_at :
                          i + 2 + 3 * Len(listed.list) < k
               ELSE custom_at = {}

\* the prompt for two surfaces and custom instructions was returned
C30_Witness ==
    /\ prompt.returned
    /\ prompt_args.available_surfaces = PyList(<<"WALLET", "GMAIL">>)
    /\ prompt_args.custom_instructions = PyStr(<<"Focus on security.">>)
    /\ Len(prompt.text) = Len(ORDO_SYSTEM_PROMPT) + 12

-----------------------------------------------------------------------------
(* Properties of the classification of every name, checked under SpecTools *)

\* the surfaces of a family that the name of the call may be classified to
MailSurfaces == {"READ_GMAIL", "WRITE_GMAIL"}
XSurfaces == {"READ_SOCIAL_X", "WRITE_SOCIAL_X"}
TelegramSurfaces == {"READ_SOCIAL_TELEGRAM", "WRITE_SOCIAL_TELEGRAM"}
WalletSurfaces == {"READ_WALLET", "SIGN_TRANSACTIONS"}

\* C32: get_surface_from_tool gives every tool name exactly one of the eight
\* surfaces or UNKNOWN; two names that are equal once lower-cased get the
\* same surface; and when a name holds keywords of several surfaces, mail
\* comes before X, X before Telegram, Telegram before wallet.
C32_TotalWithPrecedence ==
    request.made =>
        LET mail == Names({Kw_email, Kw_gmail})
            x == Names({Kw_x_us, Kw_twitter})
            telegram == Names({Kw_telegram})
            wallet == Names({Kw_wallet, Kw_token, Kw_transaction})
        IN  /\ RequestedSurface \in Surfaces \cup {"UNKNOWN"}
            /\ \A other \in ToolNames :
                  Lower(other) = Lower(request.tool_name)
                      => get_surface_from_tool(other) = RequestedSurface
            /\ RequestedSurface \in
                  IF mail THEN MailSurfaces
                  ELSE IF x THEN XSurfaces
                  ELSE IF telegram THEN TelegramSurfaces
                  ELSE IF wallet THEN WalletSurfaces
                  ELSE {"UNKNOWN"}

\* a name with the keywords of Telegram and of the wallet, classified to
\* Telegram
C32_Witness ==
    /\ request.made
    /\ Names({Kw_telegram})
    /\ Names({Kw_wallet})
    /\ RequestedSurface = "READ_SOCIAL_TELEGRAM"

\* C33: every tool the six MCP servers register is classified to a surface,
\* never to UNKNOWN, so that execute_tool refuses it to a caller who holds no
\* permission.
C33_RegisteredToolsKnown ==
    ( request.made /\ request.tool_name \in RegisteredTools ) =>
        /\ RequestedSurface \in Surfaces
        /\ DOMAIN context.permissions = {} => tool_outcome.status = "raised"

-----------------------------------------------------------------------------
(* Properties of the catalogue of detectors, checked under SpecPolicy *)

\* the categories that hold the detector
CategoriesHolding(name) ==
    { category \in DOMAIN pattern_categories :
        name \in pattern_categories[category] }

\* C38: in the engine as constructed and after each of its filter calls,
\* every detector name of PATTERNS is in exactly one category of
\* pattern_categories: none is left without a category and none is in two.
C38_CategoriesPartition ==
    \A k \in 0..Len(policy_calls) :
        \A name \in PatternNames : Cardinality(CategoriesHolding(name)) = 1

-----------------------------------------------------------------------------
(* Properties of ainvoke's errors, checked under SpecGateway *)

\* C39: ainvoke raises the error "No LLM available (both primary and
\* fallback are None)" only when neither provider is configured; when the
\* primary is configured and fails and no fallback is configured, the error
\* raised names the primary's failure.
C39_NoProviderOnlyWhenNone ==
    ( call.op = "ainvoke" /\ pc = "done" /\ outcome.status = "raised" ) =>
        /\ outcome.error.text = NoLLMText => (~primary_llm /\ ~fallback_llm)
        /\ (primary_llm /\ ~fallback_llm) =>
              \E i \in 1..Len(outcome.error.text) :
                  outcome.error.text[i] = replies[Len(replies)].value

-----------------------------------------------------------------------------
(* Properties of what filter_content lets through, checked under SpecContent *)

\* the item is one of the model's mails or messages and a detector matches
\* its subject and body, or its text
SensitiveItem(x) ==
    /\ IsDict(x)
    /\ x \in Items
    /\ \/ Detectors[SpacedConcat("filter_emails", x)] # {}
       \/ Detectors[SpacedConcat("filter_messages", x)] # {}

\* C34: after filter_content on a successful tool result whose data is a
\* list, no item left in data is sensitive, whatever the items of the list
\* look like, lists that mix mails and messages included.
C34_NoSensitiveItemSurvives ==
    \A k \in 1..Len(fc_calls) :
        ( /\ IsToolResult(fc_calls[k].content)
          /\ fc_calls[k].content.dict.success = TRUE
          /\ fc_calls[k].content.dict.data.type = "list" )
        => \A i \in 1..Len(fc_calls[k].returned.dict.data.list) :
              ~SensitiveItem(fc_calls[k].returned.dict.data.list[i])

-----------------------------------------------------------------------------
(* Properties of what the pipeline hands to the synthesis, checked under    *)
(* SpecAgent                                                                *)

\* the stage was entered
Visited(stage) ==
    \E i \in 1..Len(agent_visited) : agent_visited[i] = stage

\* the Policy Engine flags the item, scanned as an item of this surface
Flagged(surface, item) ==
    Detectors[SpacedConcat(IF surface = "READ_GMAIL" THEN "filter_emails"
                           ELSE "filter_messages", item)] # {}

ReturnedTools ==
    { t \in DOMAIN agent_calls.status : agent_calls.status[t] = "returned" }

\* what the Policy Engine keeps of the lists the backend of t can return
KeptOf(t) ==
    { FilteredData([tool |-> t, success |-> TRUE, data |-> data]).kept :
        data \in BackendData(t) }

\* C36: the aggregate and the entries of errors are a function of the
\* outcome of each dispatched call, whatever the order in which the calls
\* came back: one entry of the aggregate for each call that returned, under
\* its tool and surface; the sources are the tags of the items of these
\* entries; one entry of errors for each call that failed.
C36_AggregateIgnoresOrder ==
    ( Visited("generate_response") /\ agent_calls.dispatched ) =>
        /\ { a.tool : a \in agent_state.aggregated } = ReturnedTools
        /\ Cardinality(agent_state.aggregated) = Cardinality(ReturnedTools)
        /\ \A a \in agent_state.aggregated :
              /\ a.surface = get_surface_from_tool(a.tool)
              /\ a.items \in KeptOf(a.tool)
        /\ agent_state.sources
             = UNION { { [surface |-> a.surface, id |-> a.items[j].id] :
                           j \in 1..Len(a.items) } :
                       a \in agent_state.aggregated }
        /\ { agent_state.errors[i].tool :
               i \in { k \in 1..Len(agent_state.errors) :
                         agent_state.errors[k].kind = "ToolExecutionError" } }
             = FailedTools
        /\ \A t \in FailedTools : Cardinality(EntriesFor(t)) = 1

\* the aggregate of two calls of which the one of the mail tool came back
\* before the one of the wallet tool
C36_Witness ==
    /\ Visited("generate_response")
    /\ Len(agent_state.results) = 2
    /\ agent_state.results[1].tool = Tool_search_email_threads
    /\ agent_state.results[2].tool = Tool_get_wallet_portfolio
    /\ Cardinality(agent_state.aggregated) = 2

-----------------------------------------------------------------------------
(* C37: one request, with the gateway calls of parse_query and of *)
(* generate_response made through LLMProvider.ainvoke              *)

\* the conversation parse_query sends to the gateway
ParseMessages(query) == <<[type |-> "human", content |-> query.text]>>

\* the conversation generate_response sends to the gateway
GenerateMessages(query) ==
    <<[type |-> "system", content |-> "You are Ordo"],
      [type |-> "human", content |-> query.text]>>

\* what a provider answers a stage of the pipeline with
StageContents == {"Mistral response"}

\* an external call that does not return in time
StageCauses == {"TimeoutError"}

\* a stage of the pipeline awaits llm.ainvoke(messages)
StageAinvoke(messages) ==
    /\ pc \in {"idle", "done"}
    /\ call' = [op |-> "ainvoke", messages |-> messages,
                functions |-> NoFunctions]
    /\ AinvokeBody(messages, <<>>, <<>>)
    /\ UNCHANGED <<primary_llm, fallback_llm, primary_count, fallback_count>>
    /\ UNCHANGED gatewayFrame
    /\ UNCHANGED <<plain_run, answered>>

\* parse_query hands the query to the gateway
ParseQueryCalls ==
    /\ agent_stage = "parse_query"
    /\ pc = "idle"
    /\ StageAinvoke(ParseMessages(agent_state.query))

\* the gateway call of parse_query returned
ParseQueryReturned(required) ==
    /\ pc = "done"
    /\ outcome.status = "returned"
    /\ ParseQueryAnswered(required)

\* the gateway call of parse_query raised
ParseQueryRaised ==
    /\ pc = "done"
    /\ outcome.status = "raised"
    /\ ParseQueryHeuristic

\* generate_response hands the aggregate to the gateway
GenerateResponseCalls ==
    /\ agent_stage = "generate_response"
    /\ call.messages # GenerateMessages(agent_state.query)
    /\ StageAinvoke(GenerateMessages(agent_state.query))

\* the gateway call of generate_response returned
GenerateResponseReturned ==
    /\ pc = "done"
    /\ call.messages = GenerateMessages(agent_state.query)
    /\ outcome.status = "returned"
    /\ GenerateResponseAnswered(outcome.message.content)

\* the gateway call of generate_response raised
GenerateResponseRaised ==
    /\ pc = "done"
    /\ call.messages = GenerateMessages(agent_state.query)
    /\ outcome.status = "raised"
    /\ GenerateResponseFailed

\* the permissions of the callers of a request: each surface granted or absent
RequestPermissionMaps ==
    { p \in AgentPermissionMaps : \A k \in DOMAIN p : p[k] }

\* one request, of a caller with some permissions, each provider of the
\* gateway configured or not
InitRequest ==
    /\ \E permissions \in RequestPermissionMaps : ToolInit(permissions)
    /\ \E mistral_key \in BOOLEAN, openrouter_key \in BOOLEAN :
          LLMInit(mistral_key, openrouter_key)
    /\ plain_run = NoPlainRun(<<>>)
    /\ PolicyInit(<<>>)
    /\ AgentInit
    /\ RestInit

\* the queries of the requests: one surface required, or two
RequestQueries == { q \in Queries : q.keywords \cap {"READ_SOCIAL_X", "READ_GMAIL"} # {} }

NextRequest ==
    \/ \E query \in RequestQueries : ProcessQuery(query)
    \/ ParseQueryCalls
    \/ \E required \in SurfaceSets : ParseQueryReturned(required)
    \/ ParseQueryRaised
    \/ CheckPermissions
    \/ ErrorResponse
    \/ SelectTools
    \/ DispatchTools
    \/ \E t \in AgentTools : \E data \in BackendData(t) : ToolCallReturns(t, data)
    \/ \E t \in AgentTools, cause \in ToolCauses : ToolCallFails(t, cause)
    \/ ExecuteToolsDone
    \/ FilterResults
    \/ AggregateResults
    \/ GenerateResponseCalls
    \/ GenerateResponseReturned
    \/ GenerateResponseRaised
    \/ \E content \in StageContents :
          PrimaryReturns(content) /\ UNCHANGED <<plain_run, answered>>
    \/ \E e \in StageCauses : PrimaryRaises(e) /\ UNCHANGED <<plain_run, answered>>
    \/ \E content \in StageContents :
          FallbackReturns(content) /\ UNCHANGED <<plain_run, answered>>
    \/ \E e \in StageCauses : FallbackRaises(e) /\ UNCHANGED <<plain_run, answered>>

\* OrdoAgent.process_query on one request, its gateway calls included
SpecRequest == InitRequest /\ [][NextRequest]_vars

\* every external call comes back or times out, and the event loop runs
\* whatever is ready: a step that can be taken is taken
SpecRequestFair == SpecRequest /\ WF_vars(NextRequest)

\* a tool call times out: it alone fails, with its own entry of errors
ToolTimeoutIsolated ==
    \A t \in DOMAIN agent_calls.status :
        ( /\ agent_calls.status[t] = "pending"
          /\ agent_calls'.status[t] = "failed" ) =>
            /\ \A u \in DOMAIN agent_calls.status \ {t} :
                  agent_calls'.status[u] = agent_calls.status[u]
            /\ agent_state'.errors =
                  Append(agent_state.errors, ToolExecutionError(t, "TimeoutError"))
            /\ agent_state'.results = agent_state.results
            /\ agent_stage' = agent_stage

\* the primary times out and a fallback is configured: the fallback is
\* attempted next, with the messages of the call
PrimaryTimeoutFallsBack ==
    ( /\ pc = "primary"
      /\ fallback_llm
      /\ Len(replies') = Len(replies) + 1
      /\ replies'[Len(replies')] = [ok |-> FALSE, value |-> "TimeoutError"] ) =>
        /\ pc' = "fallback"
        /\ attempts' = Append(attempts, FallbackAttempt(call.messages))
        /\ outcome' = NoOutcome

\* C37: with every external call returning or timing out, every request
\* process_query started reaches DONE, and it reaches it from
\* generate_response or from error_response; a tool call that times out
\* fails that tool only; a primary LLM call that times out is followed by
\* the attempt of the fallback.
C37_EveryRequestReachesDone ==
    /\ (agent_stage = "parse_query") ~> (agent_stage = "DONE")
    /\ [](agent_stage = "DONE" =>
            /\ Len(agent_visited) >= 2
            /\ agent_visited[Len(agent_visited) - 1]
                  \in {"generate_response", "error_response"}
            /\ agent_visited \in {FullOrder, DeniedOrder})
    /\ [][ToolTimeoutIsolated /\ PrimaryTimeoutFallsBack]_vars

\* a request that is DONE after one of its two tool calls timed out and the
\* primary timed out under generate_response
C37_Witness ==
    /\ agent_stage = "DONE"
    /\ agent_visited = FullOrder
    /\ FailedTools # {}
    /\ agent_state.aggregated # {}
    /\ Len(replies) = 2
    /\ replies[1] = [ok |-> FALSE, value |-> "TimeoutError"]
    /\ attempts[2].provider = "fallback"
    /\ agent_output.status = "returned"
    /\ agent_output.response = <<"Mistral response">>

-----------------------------------------------------------------------------
(* get_confirmation_prompt, checked under SpecConfirm *)

InitConfirm ==
    /\ ToolInit(<<>>)
    /\ LLMInit(TRUE, TRUE)
    /\ plain_run = NoPlainRun(<<>>)
    /\ PolicyInit(<<>>)
    /\ AgentInit
    /\ ContentInit(PyNone)
    /\ ChainInit([query |-> "hackathon invites"])
    /\ StatsInit
    /\ TasksInit
    /\ PromptInit(PyNone, PyNone)
    /\ \E action_type \in ActionTypes, action_details \in DetailMaps :
          ConfirmInit(action_type, action_details)
    /\ ResourceInit

NextConfirm == GetConfirmationPrompt

\* one call of get_confirmation_prompt
SpecConfirm == InitConfirm /\ [][NextConfirm]_vars

\* the lines that ask the user for approval
ApprovalLines ==
    { "Do you want to send this email?",
      "Do you want to post this tweet?",
      "Do you want to send this message?",
      "Do you want to proceed? You'll need to confirm with biometric authentication.",
      "Do you want to proceed with this swap?",
      "Do you want to proceed with staking?",
      "Do you want to proceed with this purchase?",
      "Do you want to list this NFT?" }

\* C31: for each of the eight write action types and any details map,
\* get_confirmation_prompt returns a prompt that asks the user for approval
\* and never raises; for any other action type it returns the generic
\* confirmation, which names the action type.
C31_ConfirmationAlwaysReturned ==
    confirm_out # NoConfirmation =>
        /\ confirm_out.status = "returned"
        /\ IF confirm_args.action_type \in WriteActionTypes
           THEN confirm_out.lines[Len(confirm_out.lines)] \in ApprovalLines
           ELSE confirm_out.lines[1] = "Confirm action: " \o confirm_args.action_type

-----------------------------------------------------------------------------
(* The resource handlers, checked under SpecResources *)

InitResources ==
    /\ ToolInit(<<>>)
    /\ LLMInit(TRUE, TRUE)
    /\ plain_run = NoPlainRun(<<>>)
    /\ PolicyInit(<<>>)
    /\ AgentInit
    /\ RestInit

NextResources ==
    \/ \E uri \in ResourceURIs, address \in Addresses : ReadResource(uri, address)
    \/ /\ resource_pending # NoRead
       /\ \E result \in ToolResults(resource_pending.uri, resource_pending.address) :
             ToolAnswersHandler(result)

\* resources read one after another
SpecResources == InitResources /\ [][NextResources]_vars

\* C40: every resource handler resolves to a text blob, also when the tool
\* it awaits failed and returned its error record: it never raises.
C40_HandlersNeverRaise ==
    resource_last # NoRead => resource_last.outcome.status = "returned"

=============================================================================
